---- MODULE Spec2Model ----
(***************************************************************************)
(* Model of the uptime-chopper monitoring engine (package monitor), the    *)
(* JSON store it reads its monitors from (package store), the monitor API  *)
(* handlers that write that store (package api) and the container runtime *)
(* the engine probes and remediates (package docker).                      *)
(*                                                                         *)
(* Time is in whole seconds.  The scheduler is the goroutine started by    *)
(* Engine.Start; a probe (checkOnce) is called by it synchronously.        *)
(* Computation takes no time: the clock advances only while the scheduler  *)
(* is blocked, in its select or in a probe's I/O.                          *)
(***************************************************************************)
EXTENDS Integers, Sequences, FiniteSets, TLC

(* ------------------------------ bounds -------------------------------- *)

\* the clock stops here
MaxTime == 6
\* requests from outside served in one behaviour: API requests and the
\* termination signal
MaxApiOps == 2
\* appends fed to a history list beyond its capacity (history harness)
ExtraAppends == 10
\* latest tick time fed to a history list (history harness)
MaxStamp == 2
\* notifications in the store, elements of notifyWebhookIds, probes of the
\* monitor (notification harness)
MaxNotifs == 2
MaxHookIds == 2
MaxNotifyProbes == 2
\* calls of UpsertMonitor (store harness)
MaxUpserts == 3
\* probes completed (reader harness)
MaxCopyProbes == 2
\* invocations of tryRemediate by each goroutine (gate harness)
MaxGateCalls == 2
\* calls of checkContainer (container harness)
MaxContainerProbes == 2
\* calls of checkHTTP (HTTP harness)
MaxHTTPProbes == 2
\* calls of limitedWriter.Write (writer harness)
MaxWrites == 3
\* calls of buildDiscordPayload (discord harness)
MaxBuilds == 2
\* calls of methods of the container client (client harness)
MaxClientOps == 3
\* calls of checkOnce and channels a monitor resolves to (emit harness)
MaxEmitProbes == 2
MaxChannels == 2
\* calls of the writing methods of the JSON store (persist harness)
MaxStoreOps == 3
\* calls of checkOnce (order harness)
MaxOrderProbes == 2
\* calls of Start, calls of Stop and seconds that pass (restart harness)
MaxStarts == 2
MaxStops == 2
MaxSeconds == 6

(* ------------------------- program constants -------------------------- *)

\* "Keep last 50"
HistoryCap == 50
\* maxInt(5, m.IntervalSeconds), maxInt(5, p.CooldownSeconds)
MinSeconds == 5
\* maxInt(1, m.TimeoutSeconds)
MinTimeout == 1
\* normalizeMonitor defaults
DefaultInterval == 60
DefaultTimeout == 10
\* newLimitedWriter: 64 * 1024
DefaultMaxBytes == 65536
\* tryAttachLogs: tail = 200
DefaultTail == 200
\* buildDiscordPayload: 0x5cdd8b, 0xdc3545, 0xffc107
ColorGreen == 6086027
ColorRed == 14431557
ColorYellow == 16761095

maxInt(a, b) == IF a > b THEN a ELSE b

MonitorIds == {"a", "b"}

StatusUnknown == "unknown"
StatusUp == "up"
StatusDown == "down"
StatusPaused == "paused"

\* a key that is not in a Go map: lastStatus has no entry
Absent == "absent"

(* ------------------------------ inputs -------------------------------- *)

\* remediation policies a container monitor is given
RemPolicies ==
    { [action |-> "restart", maxAttempts |-> 2, cooldownSeconds |-> 0],
      [action |-> "start",   maxAttempts |-> 2, cooldownSeconds |-> 6],
      [action |-> "restart", maxAttempts |-> 1, cooldownSeconds |-> 0],
      [action |-> "none",    maxAttempts |-> 0, cooldownSeconds |-> 0] }

NoRemediation == [action |-> "", maxAttempts |-> 0, cooldownSeconds |-> 0]

\* the zero model.Monitor
ZeroMonitor ==
    [id |-> "", type |-> "", isPaused |-> FALSE, intervalSeconds |-> 0,
     timeoutSeconds |-> 0, remediation |-> NoRemediation]

\* request bodies of POST /api/monitors and PUT /api/monitors/{id}:
\* monitor "a" watches a container, monitor "b" an HTTP endpoint
Bodies(id) ==
    IF id = "a"
    THEN { [id |-> id, type |-> "container", isPaused |-> FALSE,
            intervalSeconds |-> 1, timeoutSeconds |-> 1, remediation |-> r]
           : r \in RemPolicies }
    ELSE { [id |-> id, type |-> "http", isPaused |-> FALSE,
            intervalSeconds |-> 0, timeoutSeconds |-> 5,
            remediation |-> NoRemediation] }

VARIABLES
    \* JSONStore.state.Monitors: backing array (its length is the capacity)
    \* and the slice length
    arr, slen,
    \* the pause/resume handler between its GetState and its UpsertMonitor
    pend,
    \* requests from outside served so far
    apiOps,
    \* Engine maps
    lastStatus, lastCheck, history, attempts, remediateAt,
    \* Engine.ctx cancelled, Engine.wg counter, the caller of Stop
    cancelled, wg, stopPc,
    \* the scheduler goroutine: position, tick being processed, the State
    \* it fetched (slice header), the index of the range loop, nextRun
    loopPc, loopNow, snap, snapLen, idx, nextRun,
    \* checkOnce invocations in progress
    probes,
    \* container runtime: state of the container monitor "a" watches
    cstate,
    \* wall clock, ticker channel (capacity 1, 0 = empty)
    clock, tickChan,
    \* observations: ticks the ticker dropped; the last remediation action,
    \* remediated event and completed probe of each monitor; remediation
    \* actions since the last probe that reported up; a paused tick since
    \* the last completed probe; remediation policies stored so far
    dropped, lastAct, lastRemEvt, lastProbe, remSinceUp, pausedSince, cfgHist,
    \* observation: the monitors stored with paused = true ever since the
    \* scheduler fetched the State of the tick it is processing
    pausedAll,
    \* observation: the monitors that were not in the store when the
    \* scheduler fetched the State of the tick it is processing and have
    \* not been stored since
    goneAll,
    \* history harness: which list is fed, the lists, everything fed so far
    histTarget, engHist, storeHist, fed,
    \* notification harness: the store's notifications, the legacy config
    \* webhooks, the probed monitor's notifyWebhookIds; the position of
    \* checkOnce and of the loop of emitWebhookBestEffort; what that loop
    \* did for each element so far, the last call of Send, probes so far
    nStore, nLegacy, nIds, nPc, nPos, nLog, nLast, nProbes,
    \* store harness: which store is used, its monitors, the time, the last
    \* UpsertMonitor call and what GetState gave for its id afterwards
    uKind, uRows, uNow, uLast,
    \* reader harness: what GetHistory and StatusSnapshot last returned to a
    \* caller, and the probes completed so far
    gHist, gSnap, gProbes,
    \* gate harness: the position of each goroutine in tryRemediate, who
    \* holds e.mu, each goroutine's now, the attempts count each passed
    \* the gate on, the policy, the counts the gate was passed on so far,
    \* invocations so far
    rPc, rMu, rNow, rSeen, rPol, rPasses, rCalls,
    \* container harness: the monitor, the time of the last call of
    \* checkContainer, what the runtime answered in it, what it did and
    \* returned, calls so far
    kMon, kNow, kOut, kRes, kProbes,
    \* HTTP harness: the monitor, what the GET of the last call of checkHTTP
    \* met, what the call returned, calls so far
    hMon, hOut, hRes, hProbes,
    \* writer harness: the limitedWriter (max, buf, truncated), the bytes
    \* given to Write so far, whether every Write returned (len(p), nil),
    \* calls so far
    wMax, wBuf, wTruncated, wTotal, wReturns, wWrites,
    \* discord harness: which copy of package notify is built, the payload
    \* last given to buildDiscordPayload, the color of its embed, calls so far
    dCopy, dPayload, dColor, dBuilds,
    \* client harness: Client.isMock, Client.mockDB, the last method call
    \* and what it returned, calls so far
    cIsMock, cMockDB, cLast, cOps,
    \* emit harness: the position of checkOnce, the clock, the deadline of
    \* the probe's context, the monitor's timeoutSeconds and number of
    \* channels, lastStatus, the result of the check, the channels still to
    \* send to, the calls of Send so far, calls of checkOnce so far
    tPc, tClock, tDeadline, tMon, tPrev, tRes, tTodo, tPosts, tProbes,
    \* persist harness: JSONStore.state.Monitors and .Notifications, the
    \* content of the file, the time, the last call of a writing method
    \* with the lists as they were before it
    jMons, jNotifs, jFile, jNow, jLast,
    \* order harness: the position of checkOnce for monitor "a", the
    \* monitor, the tick time, the status of the check, prev, the effects
    \* of the call so far, calls so far; a reader that calls
    \* StatusSnapshot and then GetHistory, and what the two returned
    oPc, oMon, oNow, oStatus, oPrev, oLog, oProbes, oRead,
    \* restart harness: e.ctx cancelled, the counter of e.wg, the caller of
    \* Stop and its calls so far; of each call of Start: the position of its
    \* scheduler goroutine, its ticker channel, its nextRun map, the ticks it
    \* handled and whether Stop had been called before it; seconds passed
    xCancelled, xWg, xStopPc, xStops, xLoopPc, xTick, xNextRun, xHandled, xLate,
    xSeconds

storeVars == <<arr, slen, pend, apiOps, cfgHist, pausedAll, goneAll>>
mapVars == <<lastStatus, lastCheck, history, attempts, remediateAt>>
lifeVars == <<cancelled, wg, stopPc>>
loopVars == <<loopPc, loopNow, snap, snapLen, idx, nextRun>>
timeVars == <<clock, tickChan, dropped>>
obsVars == <<lastAct, lastRemEvt, lastProbe, remSinceUp, pausedSince>>
histVars == <<histTarget, engHist, storeHist, fed>>
notifVars == <<nStore, nLegacy, nIds, nPc, nPos, nLog, nLast, nProbes>>
upsVars == <<uKind, uRows, uNow, uLast>>
copyVars == <<gHist, gSnap, gProbes>>
gateVars == <<rPc, rMu, rNow, rSeen, rPol, rPasses, rCalls>>
ctrVars == <<kMon, kNow, kOut, kRes, kProbes>>
httpVars == <<hMon, hOut, hRes, hProbes>>
writerVars == <<wMax, wBuf, wTruncated, wTotal, wReturns, wWrites>>
discordVars == <<dCopy, dPayload, dColor, dBuilds>>
clientVars == <<cIsMock, cMockDB, cLast, cOps>>
emitVars == <<tPc, tClock, tDeadline, tMon, tPrev, tRes, tTodo, tPosts, tProbes>>
persistVars == <<jMons, jNotifs, jFile, jNow, jLast>>
orderVars == <<oPc, oMon, oNow, oStatus, oPrev, oLog, oProbes, oRead>>
restartVars == <<xCancelled, xWg, xStopPc, xStops, xLoopPc, xTick, xNextRun, xHandled, xLate,
                 xSeconds>>
extVars == <<clientVars, emitVars, persistVars, orderVars, restartVars>>
auxVars == <<gateVars, ctrVars, httpVars, writerVars, discordVars, extVars>>
harnessVars == <<histVars, notifVars, upsVars, copyVars, auxVars>>

vars == <<arr, slen, pend, apiOps, cfgHist, pausedAll, goneAll, lastStatus, lastCheck, history,
          attempts, remediateAt, cancelled, wg, stopPc, loopPc, loopNow, snap,
          snapLen, idx, nextRun, probes, cstate, clock, tickChan, dropped,
          lastAct, lastRemEvt, lastProbe, remSinceUp, pausedSince,
          histTarget, engHist, storeHist, fed,
          nStore, nLegacy, nIds, nPc, nPos, nLog, nLast, nProbes,
          uKind, uRows, uNow, uLast, gHist, gSnap, gProbes,
          rPc, rMu, rNow, rSeen, rPol, rPasses, rCalls,
          kMon, kNow, kOut, kRes, kProbes, hMon, hOut, hRes, hProbes,
          wMax, wBuf, wTruncated, wTotal, wReturns, wWrites,
          dCopy, dPayload, dColor, dBuilds,
          cIsMock, cMockDB, cLast, cOps,
          tPc, tClock, tDeadline, tMon, tPrev, tRes, tTodo, tPosts, tProbes,
          jMons, jNotifs, jFile, jNow, jLast,
          oPc, oMon, oNow, oStatus, oPrev, oLog, oProbes, oRead,
          xCancelled, xWg, xStopPc, xStops, xLoopPc, xTick, xNextRun, xHandled, xLate,
          xSeconds>>

(* ------------------------------- store -------------------------------- *)

\* append's growth of a full backing array of Monitor values
GrowCap(c) == IF c = 0 THEN 1 ELSE 2 * c

\* the first index of the slice whose element has this id, 0 if none
IndexOfId(id) ==
    LET hits == {i \in 1..slen : arr[i].id = id}
    IN  IF hits = {} THEN 0 ELSE CHOOSE i \in hits : \A j \in hits : i <= j

\* the scheduler is inside a tick and still holds the State it fetched
MidTick == loopPc \in {"iter", "wait"}

\* JSONStore.GetState returns s.state: the slice header, not a copy, so the
\* holder keeps reading the store's backing array; it reads a private array
\* only once append has moved the store to a new one
SharedSnap == [shared |-> TRUE, data |-> <<>>]

\* JSONStore.UpsertMonitor: replace in place, or append
UpsertMonitor(m) ==
    LET i == IndexOfId(m.id) IN
    /\ cfgHist' = [cfgHist EXCEPT ![m.id] = @ \cup {m.remediation}]
    /\ pausedAll' = IF m.isPaused THEN pausedAll ELSE pausedAll \ {m.id}
    /\ goneAll' = goneAll \ {m.id}
    /\ IF i # 0
       THEN /\ arr' = [arr EXCEPT ![i] = m]
            /\ UNCHANGED <<slen, snap>>
       ELSE IF slen < Len(arr)
       THEN /\ arr' = [arr EXCEPT ![slen + 1] = m]
            /\ slen' = slen + 1
            /\ UNCHANGED snap
       ELSE /\ arr' = [k \in 1..GrowCap(Len(arr)) |->
                          IF k <= slen THEN arr[k]
                          ELSE IF k = slen + 1 THEN m ELSE ZeroMonitor]
            /\ slen' = slen + 1
            /\ snap' = IF MidTick /\ snap.shared
                       THEN [shared |-> FALSE, data |-> arr] ELSE snap

\* JSONStore.DeleteMonitor: compacts the slice in its own backing array
\* (dst := s.state.Monitors[:0]); the slots past the new length keep
\* their old values
DeleteMonitor(id) ==
    LET kept == SelectSeq(SubSeq(arr, 1, slen), LAMBDA x : x.id # id) IN
    /\ arr' = [k \in 1..Len(arr) |-> IF k <= Len(kept) THEN kept[k] ELSE arr[k]]
    /\ slen' = Len(kept)
    /\ pausedAll' = pausedAll \ {id}
    /\ goneAll' = goneAll
    /\ UNCHANGED <<snap, cfgHist>>

(* -------------------------------- api --------------------------------- *)

normalizeMonitor(m) ==
    [m EXCEPT !.intervalSeconds = IF @ <= 0 THEN DefaultInterval ELSE @,
              !.timeoutSeconds = IF @ <= 0 THEN DefaultTimeout ELSE @]

engineVars == <<lastStatus, lastCheck, history, attempts, remediateAt,
                cancelled, wg, stopPc, loopPc, loopNow, snapLen, idx, nextRun,
                probes, cstate, clock, tickChan, dropped,
                lastAct, lastRemEvt, lastProbe, remSinceUp, pausedSince>>

\* PUT /api/monitors/{id} (and POST /api/monitors with an id)
PutMonitor ==
    /\ apiOps < MaxApiOps
    /\ stopPc = "none"
    /\ \E id \in MonitorIds : \E body \in Bodies(id) :
          UpsertMonitor(normalizeMonitor([body EXCEPT !.id = id]))
    /\ <<arr', slen'>> # <<arr, slen>>
    /\ apiOps' = apiOps + 1
    /\ UNCHANGED <<pend, engineVars, harnessVars>>

\* DELETE /api/monitors/{id}
DeleteMonitorHandler ==
    /\ apiOps < MaxApiOps
    /\ stopPc = "none"
    /\ \E id \in MonitorIds : DeleteMonitor(id)
    /\ slen' # slen
    /\ apiOps' = apiOps + 1
    /\ UNCHANGED <<pend, engineVars, harnessVars>>

NoPend == [id |-> "", m |-> ZeroMonitor]

\* POST /api/monitors/{id}/pause and /resume, first half: GetState and the
\* search for the monitor; a request for an id that is not stored is a 404
PauseFind ==
    /\ apiOps < MaxApiOps
    /\ stopPc = "none"
    /\ pend = NoPend
    /\ \E id \in MonitorIds : \E flag \in BOOLEAN :
          /\ IndexOfId(id) # 0
          /\ arr[IndexOfId(id)].isPaused # flag
          /\ pend' = [id |-> id, m |-> [arr[IndexOfId(id)] EXCEPT !.isPaused = flag]]
    /\ apiOps' = apiOps + 1
    /\ UNCHANGED <<arr, slen, snap, cfgHist, pausedAll, goneAll, engineVars,
                   harnessVars>>

\* second half: UpsertMonitor of the copy found
PauseUpsert ==
    /\ pend # NoPend
    /\ UpsertMonitor(pend.m)
    /\ pend' = NoPend
    /\ UNCHANGED <<apiOps, engineVars, harnessVars>>

(* ------------------------------- engine ------------------------------- *)

\* Engine.getLastStatus: unknown when the map has no entry
getLastStatus(id) ==
    IF lastStatus[id] = Absent THEN StatusUnknown ELSE lastStatus[id]

\* mutant: the cap drops the newest entry instead of the oldest
appendHistoryKeepOldest(hist, entry) ==
    LET h == <<entry>> \o hist
    IN  IF Len(h) > HistoryCap THEN SubSeq(h, 2, HistoryCap + 1) ELSE h

\* mutant: the entry is put at the end of the list
appendHistoryAtEnd(hist, entry) ==
    LET h == hist \o <<entry>>
    IN  IF Len(h) > HistoryCap THEN SubSeq(h, 1, HistoryCap) ELSE h

\* Engine.appendHistory: prepend, keep the first 50
appendHistory(hist, entry) ==
    LET h == <<entry>> \o hist
    IN  IF Len(h) > HistoryCap THEN SubSeq(h, 1, HistoryCap) ELSE h

\* JSONStore.AddMonitorHistory: the same list discipline in the store
AddMonitorHistory(hist, entry) ==
    LET h == <<entry>> \o hist
    IN  IF Len(h) > HistoryCap THEN SubSeq(h, 1, HistoryCap) ELSE h

\* loop: the nextRun gate (0 = the map has no entry; ticks are >= 1)
Due(id, now) == nextRun[id] = 0 \/ ~(now < nextRun[id])

\* mutant: the interval is taken as given
IntervalAsGiven(m) == m.intervalSeconds

\* loop: interval := maxInt(5, m.IntervalSeconds)
Interval(m) == maxInt(MinSeconds, m.intervalSeconds)

\* checkOnce: the probe's deadline, counted from the wall clock at the call
Deadline(m) == clock + maxInt(MinTimeout, m.timeoutSeconds)

\* tryRemediate: the first returns (no container policy to apply)
RemediationEnabled(p) ==
    /\ ~(p.action = "" \/ p.action = "none")
    /\ ~(p.maxAttempts <= 0)

\* mutants of the gate: off by one on the cap; no cooldown check
GatePassOffByOne(id, now, p) ==
    /\ ~(remediateAt[id] # 0 /\ now < remediateAt[id])
    /\ ~(attempts[id] > p.maxAttempts)

GatePassNoCooldown(id, now, p) ==
    ~(attempts[id] >= p.maxAttempts)

GatePassNoCap(id, now, p) ==
    ~(remediateAt[id] # 0 /\ now < remediateAt[id])

\* tryRemediate: the gate checked under e.mu (0 = remediateAt is zero)
GatePass(id, now, p) ==
    /\ ~(remediateAt[id] # 0 /\ now < remediateAt[id])
    /\ ~(attempts[id] >= p.maxAttempts)

\* tryRemediate: e.remediateAt[m.ID] = now.Add(maxInt(5, cooldown) seconds)
NextRemediateAt(now, p) == now + maxInt(MinSeconds, p.cooldownSeconds)

\* mutant: attempts is reset only on a change from down to up
ShouldResetFromDown(status, prev) == status = StatusUp /\ prev = StatusDown

\* checkOnce: if res.Status == up && prev != up { resetAttempts }
ShouldReset(status, prev) == status = StatusUp /\ prev # StatusUp

\* mutant: one emission per probe
\* a variant that reports only the changes to down
ShouldEmitUnlessResumed(status, prev) == prev # status /\ prev # StatusPaused
ShouldEmitOnDown(status, prev) == prev # status /\ status = StatusDown

ShouldEmitAlways(status, prev) == TRUE

\* checkOnce: if prev != res.Status { emitNotification }
ShouldEmit(status, prev) == prev # status

\* mutant: go e.checkOnce(now, m)
CheckOnceGo == "go"

\* loop calls e.checkOnce(now, m) and waits for it to return
CheckOnceMode == "call"

\* mutant: the select has no ctx.Done case
SelectDoneNever == FALSE

\* loop: case <-e.ctx.Done() is ready
SelectDone == cancelled

\* mutant: Stop does not wait
WaitDoneAtOnce == TRUE

\* Engine.Stop: e.wg.Wait() returns when the counter is zero
WaitDone == wg = 0

\* the element of the fetched State the range loop reads at index i
SnapElem(i) == IF snap.shared THEN arr[i] ELSE snap.data[i]

\* a probe's context is done: root cancelled or deadline passed
CtxDone(p) == cancelled \/ clock >= p.deadline

\* no call of Send yet
NoSend == [type |-> "", resp |-> "none", failed |-> FALSE]

\* the notification harness is not in use
NotifyOff ==
    /\ nStore = <<>>
    /\ nLegacy = {}
    /\ nIds = <<>>
    /\ nPc = "off"
    /\ nPos = 0
    /\ nLog = <<>>
    /\ nLast = NoSend
    /\ nProbes = 0

\* a stored monitor with its timestamps (0 = the zero time); isPaused
\* stands for the fields a caller sets
NoStamped == [id |-> "", isPaused |-> FALSE, createdAt |-> 0, updatedAt |-> 0]

NoUpsert == [m |-> NoStamped, got |-> NoStamped]

\* the store harness is not in use
UpsertOff ==
    /\ uKind = "off"
    /\ uRows = <<>>
    /\ uNow = 0
    /\ uLast = NoUpsert

\* nothing returned to a caller yet
NoHist == [taken |-> FALSE, id |-> "", alias |-> FALSE, null |-> FALSE,
           data |-> <<>>, mutated |-> FALSE]
NoSnap == [taken |-> FALSE, data |-> <<>>, mutated |-> FALSE]

\* the reader harness is not in use
CopyOff ==
    /\ gHist = NoHist
    /\ gSnap = NoSnap
    /\ gProbes = 0

\* the goroutines that call tryRemediate for monitor "a"
Goroutines == {1, 2}

\* the gate harness is not in use
GateOff ==
    /\ rPc = [t \in Goroutines |-> "off"]
    /\ rMu = 0
    /\ rNow = [t \in Goroutines |-> 0]
    /\ rSeen = [t \in Goroutines |-> 0]
    /\ rPol = NoRemediation
    /\ rPasses = <<>>
    /\ rCalls = [t \in Goroutines |-> 0]

\* the zero model.RestartPolicy and model.DockerLogOptions
NoRestartPolicy == [name |-> "", maximumRetryCount |-> 0]
NoLogs == [include |-> FALSE, tail |-> 0]

\* a container monitor without its Container (nil)
NoContainer ==
    [hasContainer |-> FALSE, containerId |-> "", hasRestartPolicy |-> FALSE,
     restartPolicy |-> NoRestartPolicy, remediation |-> NoRemediation,
     logs |-> NoLogs]

\* no answers of the runtime, nothing done or returned
NoOutcome == [stateErr |-> FALSE, state |-> "", policyErr |-> FALSE,
              actionOk |-> FALSE, logs |-> "error"]
NoResult == [status |-> "none", message |-> "", logs |-> FALSE, calls |-> <<>>,
             events |-> <<>>, attempts |-> 0, remediateAt |-> 0]

\* the container harness is not in use
ContainerOff ==
    /\ kMon = NoContainer
    /\ kNow = 0
    /\ kOut = NoOutcome
    /\ kRes = NoResult
    /\ kProbes = 0

\* an HTTP monitor without its HTTP (nil); no GET, no result
NoHTTP == [hasHTTP |-> FALSE, url |-> ""]
NoGet == [kind |-> "none", code |-> 0, elapsed |-> 0]
NoCheck == [status |-> "none", message |-> "", latencyMs |-> 0, requests |-> 0]

\* the HTTP harness is not in use
HTTPOff ==
    /\ hMon = NoHTTP
    /\ hOut = NoGet
    /\ hRes = NoCheck
    /\ hProbes = 0

\* the writer harness is not in use
WriterOff ==
    /\ wMax = 0
    /\ wBuf = <<>>
    /\ wTruncated = FALSE
    /\ wTotal = 0
    /\ wReturns = TRUE
    /\ wWrites = 0

\* data["current"] of a payload: absent, a string, or a value of another
\* type
NoCurrent == [has |-> FALSE, isString |-> FALSE, value |-> ""]

NoPayload == [type |-> "", current |-> NoCurrent, at |-> 0]

\* the discord harness is not in use
DiscordOff ==
    /\ dCopy = "off"
    /\ dPayload = NoPayload
    /\ dColor = 0
    /\ dBuilds = 0

\* the ids given to the container client: the three of the in-memory
\* records and two others
ContainerIds == {"mock-1", "mock-2", "mock-3", "ghost", ""}

\* a key that is not in Client.mockDB
NoSummary == [has |-> FALSE, state |-> "", status |-> "", restartPolicy |-> ""]

NoClientCall == [op |-> "", id |-> "", err |-> FALSE, out |-> "", ids |-> {}]

\* the client harness is not in use
ClientOff ==
    /\ cIsMock = FALSE
    /\ cMockDB = [id \in ContainerIds |-> NoSummary]
    /\ cLast = NoClientCall
    /\ cOps = 0

NoEmitMonitor == [timeoutSeconds |-> 0, channels |-> 0]
NoEmitResult == [status |-> "none", cause |-> ""]

\* the emit harness is not in use
EmitOff ==
    /\ tPc = "off"
    /\ tClock = 0
    /\ tDeadline = 0
    /\ tMon = NoEmitMonitor
    /\ tPrev = Absent
    /\ tRes = NoEmitResult
    /\ tTodo = 0
    /\ tPosts = <<>>
    /\ tProbes = 0

NoStoreCall == [op |-> "", id |-> "", err |-> FALSE, mons |-> <<>>,
                notifs |-> <<>>, createdAt |-> 0]

\* the persist harness is not in use
PersistOff ==
    /\ jMons = <<>>
    /\ jNotifs = <<>>
    /\ jFile = [mons |-> <<>>, notifs |-> <<>>]
    /\ jNow = 0
    /\ jLast = NoStoreCall

NoOrderMonitor == [remediation |-> NoRemediation, include |-> FALSE,
                   hasRestartPolicy |-> FALSE]
NoRead == [pc |-> "none", status |-> "", lastCheck |-> 0, headStatus |-> "",
           headAt |-> 0]

\* the order harness is not in use
OrderOff ==
    /\ oPc = "off"
    /\ oMon = NoOrderMonitor
    /\ oNow = 0
    /\ oStatus = "none"
    /\ oPrev = "none"
    /\ oLog = <<>>
    /\ oProbes = 0
    /\ oRead = NoRead

\* the calls of Start
Starts == 1..MaxStarts

\* the restart harness is not in use
RestartOff ==
    /\ xCancelled = FALSE
    /\ xWg = 0
    /\ xStopPc = "off"
    /\ xStops = 0
    /\ xLoopPc = [i \in Starts |-> "none"]
    /\ xTick = [i \in Starts |-> 0]
    /\ xNextRun = [i \in Starts |-> [id \in MonitorIds |-> 0]]
    /\ xHandled = [i \in Starts |-> 0]
    /\ xLate = [i \in Starts |-> FALSE]
    /\ xSeconds = 0

\* the harnesses of the later sections are not in use
ExtOff == ClientOff /\ EmitOff /\ PersistOff /\ OrderOff /\ RestartOff

\* the harnesses of single functions are not in use
AuxOff ==
    /\ GateOff
    /\ ContainerOff
    /\ HTTPOff
    /\ WriterOff
    /\ DiscordOff
    /\ ExtOff

NoAct == [at |-> 0, cooldownSeconds |-> 0, maxAttempts |-> 0, attempt |-> 0]
NoEvt == [at |-> 0, attempt |-> 0]
NoProbe == [at |-> 0, status |-> "none", prev |-> "none", prevProbe |-> "none",
            pausedSince |-> FALSE, emitted |-> 0, cancelled |-> FALSE,
            intervalSeconds |-> 0]

Init ==
    /\ \E a \in Bodies("a") : \E b \in Bodies("b") : \E bp \in BOOLEAN :
          /\ a.remediation.action # "none"
          /\ arr = <<a, [b EXCEPT !.isPaused = bp]>>
          /\ cfgHist = [id \in MonitorIds |->
                          IF id = "a" THEN {a.remediation} ELSE {b.remediation}]
    /\ slen = 2
    /\ pend = NoPend
    /\ apiOps = 0
    /\ pausedAll = {}
    /\ goneAll = {}
    /\ lastStatus = [id \in MonitorIds |-> Absent]
    /\ lastCheck = [id \in MonitorIds |-> 0]
    /\ history = [id \in MonitorIds |-> <<>>]
    /\ attempts = [id \in MonitorIds |-> 0]
    /\ remediateAt = [id \in MonitorIds |-> 0]
    /\ cancelled = FALSE
    /\ wg = 0
    /\ stopPc = "none"
    /\ loopPc = "idle"
    /\ loopNow = 0
    /\ snap = SharedSnap
    /\ snapLen = 0
    /\ idx = 0
    /\ nextRun = [id \in MonitorIds |-> 0]
    /\ probes = {}
    /\ cstate = "exited"
    /\ clock = 0
    /\ tickChan = 0
    /\ dropped = FALSE
    /\ lastAct = [id \in MonitorIds |-> NoAct]
    /\ lastRemEvt = [id \in MonitorIds |-> NoEvt]
    /\ lastProbe = [id \in MonitorIds |-> NoProbe]
    /\ remSinceUp = [id \in MonitorIds |-> 0]
    /\ pausedSince = [id \in MonitorIds |-> FALSE]
    /\ histTarget = "none"
    /\ engHist = <<>>
    /\ storeHist = <<>>
    /\ fed = <<>>
    /\ NotifyOff
    /\ UpsertOff
    /\ CopyOff
    /\ AuxOff

\* Engine.Start: wg.Add(1) and the scheduler goroutine (main calls it once)
Start ==
    /\ pend = NoPend
    /\ loopPc = "idle"
    /\ loopPc' = "select"
    /\ wg' = wg + 1
    /\ UNCHANGED <<storeVars, mapVars, cancelled, stopPc, loopNow, snap, snapLen,
                   idx, nextRun, probes, cstate, timeVars, obsVars, harnessVars>>

\* Engine.Stop, first half: e.cancel()
Stop ==
    /\ apiOps < MaxApiOps
    /\ pend = NoPend
    /\ stopPc = "none"
    /\ loopPc # "idle"
    /\ cancelled' = TRUE
    /\ stopPc' = "waiting"
    /\ apiOps' = apiOps + 1
    /\ UNCHANGED <<arr, slen, pend, cfgHist, pausedAll, goneAll, mapVars, wg, loopVars,
                   probes, cstate, timeVars, obsVars, harnessVars>>

\* Engine.Stop, second half: e.wg.Wait() returns
StopReturn ==
    /\ pend = NoPend
    /\ stopPc = "waiting"
    /\ WaitDone
    /\ stopPc' = "returned"
    /\ UNCHANGED <<storeVars, mapVars, cancelled, wg, loopVars, probes, cstate,
                   timeVars, obsVars, harnessVars>>

\* loop: case <-e.ctx.Done(): return (deferred: ticker.Stop, wg.Done)
LoopDone ==
    /\ pend = NoPend
    /\ loopPc = "select"
    /\ SelectDone
    /\ loopPc' = "exited"
    /\ wg' = wg - 1
    /\ tickChan' = 0
    /\ UNCHANGED <<storeVars, mapVars, cancelled, stopPc, loopNow, snap, snapLen,
                   idx, nextRun, probes, cstate, clock, dropped, obsVars, harnessVars>>

\* a variant that ranges over the whole backing array of the slice
FetchedLenBacking == Len(arr)

\* len(state.Monitors) of the State that GetState returns: the range loop
\* evaluates it once, when it starts
FetchedLen == slen

\* loop: case now := <-ticker.C, then state := e.deps.Store.GetState()
LoopTick ==
    /\ pend = NoPend
    /\ loopPc = "select"
    /\ tickChan # 0
    /\ loopNow' = tickChan
    /\ tickChan' = 0
    /\ snap' = SharedSnap
    /\ snapLen' = FetchedLen
    /\ idx' = IF FetchedLen = 0 THEN 0 ELSE 1
    /\ loopPc' = IF FetchedLen = 0 THEN "select" ELSE "iter"
    /\ pausedAll' = {arr[i].id : i \in {j \in 1..slen : arr[j].isPaused}}
    /\ goneAll' = MonitorIds \ {arr[i].id : i \in 1..slen}
    /\ UNCHANGED <<arr, slen, pend, apiOps, cfgHist, mapVars, lifeVars, nextRun, probes, cstate, clock,
                   dropped, obsVars, harnessVars>>

\* the range loop moves past index idx; after the last one, back to select
Advance ==
    IF idx < snapLen
    THEN /\ loopPc' = "iter"
         /\ idx' = idx + 1
         /\ UNCHANGED <<snap, snapLen>>
    ELSE /\ loopPc' = "select"
         /\ idx' = 0
         /\ snapLen' = 0
         /\ snap' = SharedSnap

\* a probe has returned: the scheduler, if it waits for it, goes on
Resume ==
    IF loopPc = "wait" THEN Advance ELSE UNCHANGED <<loopPc, idx, snap, snapLen>>

\* checkOnce, after the check: the transition rules.  att is the attempts
\* map as tryRemediate left it.
Transition(p, status, att) ==
    LET id == p.id
        prev == getLastStatus(id)
    IN  /\ lastStatus' = [lastStatus EXCEPT ![id] = status]
        /\ lastCheck' = [lastCheck EXCEPT ![id] = p.now]
        /\ history' = [history EXCEPT ![id] =
                          appendHistory(@, [status |-> status, checkedAt |-> p.now])]
        /\ attempts' = IF ShouldReset(status, prev)
                       THEN [att EXCEPT ![id] = 0] ELSE att
        /\ lastProbe' = [lastProbe EXCEPT ![id] =
                            [at |-> p.now, status |-> status, prev |-> prev,
                             prevProbe |-> lastProbe[id].status,
                             pausedSince |-> pausedSince[id],
                             emitted |-> IF ShouldEmit(status, prev) THEN 1 ELSE 0,
                             cancelled |-> cancelled,
                             intervalSeconds |-> p.m.intervalSeconds]]
        /\ pausedSince' = [pausedSince EXCEPT ![id] = FALSE]
        /\ remSinceUp' = IF status = StatusUp
                         THEN [remSinceUp EXCEPT ![id] = 0] ELSE remSinceUp

\* loop: one iteration of "for _, m := range state.Monitors"
LoopIter ==
    /\ pend = NoPend
    /\ loopPc = "iter"
    /\ LET m == SnapElem(idx)
           p == [id |-> m.id, m |-> m, now |-> loopNow, deadline |-> Deadline(m),
                 phase |-> "check"]
       IN  IF m.isPaused
           THEN \* e.setLastStatus(m.ID, model.StatusPaused, now); continue
                /\ lastStatus' = [lastStatus EXCEPT ![m.id] = StatusPaused]
                /\ lastCheck' = [lastCheck EXCEPT ![m.id] = loopNow]
                /\ pausedSince' = [pausedSince EXCEPT ![m.id] = TRUE]
                /\ Advance
                /\ UNCHANGED <<history, attempts, nextRun, probes, lastProbe,
                               remSinceUp>>
           ELSE IF ~Due(m.id, loopNow)
           THEN /\ Advance
                /\ UNCHANGED <<lastStatus, lastCheck, history, attempts, nextRun,
                               probes, lastProbe, remSinceUp, pausedSince>>
           ELSE /\ nextRun' = [nextRun EXCEPT ![m.id] = loopNow + Interval(m)]
                /\ IF m.type \in {"http", "container"}
                   THEN \* checkOnce is now inside checkHTTP or checkContainer
                        /\ probes' = probes \cup {p}
                        /\ IF CheckOnceMode = "call"
                           THEN /\ loopPc' = "wait"
                                /\ UNCHANGED <<idx, snap, snapLen>>
                           ELSE Advance
                        /\ UNCHANGED <<lastStatus, lastCheck, history, attempts,
                                       lastProbe, remSinceUp, pausedSince>>
                   ELSE \* default: "unknown monitor type", no I/O
                        /\ Transition(p, StatusUnknown, attempts)
                        /\ Advance
                        /\ UNCHANGED probes
    /\ UNCHANGED <<storeVars, remediateAt, lifeVars, loopNow, cstate, timeVars,
                   lastAct, lastRemEvt, harnessVars>>

\* checkHTTP: the GET returns.  A response in time is up (2xx, 3xx) or
\* down; an error, a cancelled context or an expired deadline is down.
CheckHTTPDone(p) ==
    /\ p.m.type = "http"
    /\ \E status \in (IF CtxDone(p) THEN {StatusDown} ELSE {StatusUp, StatusDown}) :
          Transition(p, status, attempts)
    /\ probes' = probes \ {p}
    /\ Resume
    /\ UNCHANGED <<remediateAt, cstate, lastAct, lastRemEvt>>

\* checkContainer: Docker.ContainerState returns an error or the state;
\* a state other than "running" goes on to tryRemediate
CheckContainerDone(p) ==
    /\ p.m.type = "container"
    /\ \E res \in {"error", cstate} :
          LET id == p.id
              pol == p.m.remediation
          IN  IF res = "error"
              THEN /\ Transition(p, StatusDown, attempts)
                   /\ probes' = probes \ {p}
                   /\ Resume
                   /\ UNCHANGED <<remediateAt, lastAct>>
              ELSE IF res = "running"
              THEN /\ Transition(p, StatusUp, attempts)
                   /\ probes' = probes \ {p}
                   /\ Resume
                   /\ UNCHANGED <<remediateAt, lastAct>>
              ELSE IF RemediationEnabled(pol) /\ GatePass(id, p.now, pol)
              THEN \* e.attempts[m.ID]++, e.remediateAt[m.ID] = ...
                   LET att == [attempts EXCEPT ![id] = @ + 1] IN
                   /\ remediateAt' = [remediateAt EXCEPT ![id] =
                                         NextRemediateAt(p.now, pol)]
                   /\ IF pol.action \in {"start", "restart"}
                      THEN \* now inside Docker.Start or Docker.Restart
                           /\ attempts' = att
                           /\ probes' = (probes \ {p}) \cup
                                           {[p EXCEPT !.phase = "action"]}
                           /\ lastAct' = [lastAct EXCEPT ![id] =
                                   [at |-> p.now,
                                    cooldownSeconds |-> pol.cooldownSeconds,
                                    maxAttempts |-> pol.maxAttempts,
                                    attempt |-> att[id]]]
                           /\ remSinceUp' = [remSinceUp EXCEPT ![id] = @ + 1]
                           /\ UNCHANGED <<lastStatus, lastCheck, history,
                                          lastProbe, pausedSince, loopPc, idx,
                                          snap, snapLen>>
                      ELSE \* default: return, no runtime call
                           /\ Transition(p, StatusDown, att)
                           /\ probes' = probes \ {p}
                           /\ Resume
                           /\ UNCHANGED lastAct
              ELSE /\ Transition(p, StatusDown, attempts)
                   /\ probes' = probes \ {p}
                   /\ Resume
                   /\ UNCHANGED <<remediateAt, lastAct>>
    /\ UNCHANGED <<cstate, lastRemEvt>>

\* checkOnce: the HTTP GET or the ContainerState call returns
ProbeCheckDone ==
    /\ pend = NoPend
    /\ \E p \in probes :
          /\ p.phase = "check"
          /\ CheckHTTPDone(p) \/ CheckContainerDone(p)
    /\ UNCHANGED <<storeVars, lifeVars, loopNow, nextRun, timeVars, harnessVars>>

\* a variant that reports every action
EmitsRemediatedAlways(ok) == TRUE

\* tryRemediate: if err == nil, the remediated event is sent
EmitsRemediated(ok) == ok

\* tryRemediate: Docker.Start / Docker.Restart returns; on success the
\* remediated event is sent; then checkContainer returns down and
\* checkOnce applies the transition rules
ProbeActionDone ==
    /\ pend = NoPend
    /\ \E p \in probes :
          /\ p.phase = "action"
          /\ \E ok \in BOOLEAN :
                /\ cstate' = IF ok THEN "running" ELSE cstate
                /\ lastRemEvt' = IF EmitsRemediated(ok)
                                 THEN [lastRemEvt EXCEPT ![p.id] =
                                         [at |-> p.now, attempt |-> attempts[p.id]]]
                                 ELSE lastRemEvt
          /\ Transition(p, StatusDown, attempts)
          /\ probes' = probes \ {p}
          /\ Resume
    /\ UNCHANGED <<storeVars, remediateAt, lifeVars, loopNow, nextRun, timeVars,
                   lastAct, harnessVars>>

\* nothing is runnable: the scheduler waits in select or in a probe's I/O
Blocked ==
    /\ \A p \in probes : ~CtxDone(p)
    /\ pend = NoPend
    /\ \/ loopPc = "wait"
       \/ loopPc = "select" /\ tickChan = 0 /\ ~cancelled

\* one second passes; the ticker sends the time unless its channel is full
ClockTick ==
    /\ clock < MaxTime
    /\ Blocked
    /\ clock' = clock + 1
    /\ tickChan' = IF tickChan = 0 THEN clock + 1 ELSE tickChan
    /\ dropped' = (dropped \/ tickChan # 0)
    /\ UNCHANGED <<storeVars, mapVars, lifeVars, loopVars, probes, cstate,
                   obsVars, harnessVars>>

\* the container stops or is started by something other than the engine
EnvContainer ==
    /\ pend = NoPend
    /\ \E p \in probes : p.phase = "check" /\ p.m.type = "container"
    /\ cstate' \in {"running", "exited"} \ {cstate}
    /\ UNCHANGED <<storeVars, mapVars, lifeVars, loopVars, probes, timeVars,
                   obsVars, harnessVars>>

Next ==
    \/ Start
    \/ Stop
    \/ StopReturn
    \/ LoopDone
    \/ LoopTick
    \/ LoopIter
    \/ ProbeCheckDone
    \/ ProbeActionDone
    \/ ClockTick
    \/ EnvContainer
    \/ PutMonitor
    \/ DeleteMonitorHandler
    \/ PauseFind
    \/ PauseUpsert

Spec == Init /\ [][Next]_vars

\* the scheduler, the probes and Stop keep running
FairSpec ==
    /\ Spec
    /\ WF_vars(LoopDone)
    /\ WF_vars(LoopTick)
    /\ WF_vars(LoopIter)
    /\ WF_vars(ProbeCheckDone)
    /\ WF_vars(ProbeActionDone)
    /\ WF_vars(StopReturn)

(* --------------------------- history harness --------------------------- *)

\* the engine at rest, one of the two history lists chosen to be fed
InitHist ==
    /\ arr = <<[id |-> "a", type |-> "container", isPaused |-> FALSE,
                intervalSeconds |-> 1, timeoutSeconds |-> 1,
                remediation |-> [action |-> "restart", maxAttempts |-> 2,
                                 cooldownSeconds |-> 0]],
               [id |-> "b", type |-> "http", isPaused |-> FALSE,
                intervalSeconds |-> 0, timeoutSeconds |-> 5,
                remediation |-> NoRemediation]>>
    /\ cfgHist = [id \in MonitorIds |-> {arr[IF id = "a" THEN 1 ELSE 2].remediation}]
    /\ slen = 2
    /\ pend = NoPend
    /\ apiOps = 0
    /\ pausedAll = {}
    /\ goneAll = {}
    /\ lastStatus = [id \in MonitorIds |-> Absent]
    /\ lastCheck = [id \in MonitorIds |-> 0]
    /\ history = [id \in MonitorIds |-> <<>>]
    /\ attempts = [id \in MonitorIds |-> 0]
    /\ remediateAt = [id \in MonitorIds |-> 0]
    /\ cancelled = FALSE
    /\ wg = 0
    /\ stopPc = "none"
    /\ loopPc = "idle"
    /\ loopNow = 0
    /\ snap = SharedSnap
    /\ snapLen = 0
    /\ idx = 0
    /\ nextRun = [id \in MonitorIds |-> 0]
    /\ probes = {}
    /\ cstate = "exited"
    /\ clock = 0
    /\ tickChan = 0
    /\ dropped = FALSE
    /\ lastAct = [id \in MonitorIds |-> NoAct]
    /\ lastRemEvt = [id \in MonitorIds |-> NoEvt]
    /\ lastProbe = [id \in MonitorIds |-> NoProbe]
    /\ remSinceUp = [id \in MonitorIds |-> 0]
    /\ pausedSince = [id \in MonitorIds |-> FALSE]
    /\ histTarget \in {"engine", "store"}
    /\ engHist = <<>>
    /\ storeHist = <<>>
    /\ fed = <<>>
    /\ NotifyOff
    /\ UpsertOff
    /\ CopyOff
    /\ AuxOff

\* results of successive probes: tick times never decrease
HistEntries ==
    {[status |-> st, checkedAt |-> t] :
        st \in {StatusUp, StatusDown}, t \in 1..MaxStamp}

CanFeed(entry) ==
    /\ Len(fed) < HistoryCap + ExtraAppends
    /\ fed # <<>> =>
          /\ entry.checkedAt >= fed[Len(fed)].checkedAt
          /\ entry.status = StatusDown => entry.checkedAt > fed[Len(fed)].checkedAt

\* checkOnce: e.appendHistory(m.ID, res)
AppendEngine ==
    /\ histTarget = "engine"
    /\ \E entry \in HistEntries :
          /\ CanFeed(entry)
          /\ engHist' = appendHistory(engHist, entry)
          /\ fed' = Append(fed, entry)
    /\ UNCHANGED <<storeVars, mapVars, lifeVars, loopVars, timeVars, obsVars,
                   probes, cstate, histTarget, storeHist, notifVars, upsVars, auxVars, copyVars>>

\* JSONStore.AddMonitorHistory(id, entry)
AppendStore ==
    /\ histTarget = "store"
    /\ \E entry \in HistEntries :
          /\ CanFeed(entry)
          /\ storeHist' = AddMonitorHistory(storeHist, entry)
          /\ fed' = Append(fed, entry)
    /\ UNCHANGED <<storeVars, mapVars, lifeVars, loopVars, timeVars, obsVars,
                   probes, cstate, histTarget, engHist, notifVars, upsVars, auxVars, copyVars>>

NextHist == AppendEngine \/ AppendStore

SpecHist == InitHist /\ [][NextHist]_vars

(* ------------------------- notification harness ------------------------ *)

\* what a notifyWebhookIds element, a notification id or name can be
HookNames == {"x", "y"}

\* model.Notification values of the store
Notifications ==
    [id : HookNames, name : HookNames, type : {"dingtalk", "webhook"}]

\* config.NotificationWebhook values NewDispatcher keys by name
LegacyWebhooks ==
    {[name |-> "x", type |-> "wechat"], [name |-> "y", type |-> "discord"]}

SeqsUpTo(S, n) == UNION {[1..k -> S] : k \in 0..n}

\* what Send gets back: no response (the request could not be built or
\* sent), or a response with a status and a body
RespBodies ==
    {[json |-> FALSE, errcode |-> 0], [json |-> TRUE, errcode |-> 0],
     [json |-> TRUE, errcode |-> 310000]}

Responses ==
    {[kind |-> "error", status |-> 0, body |-> [json |-> FALSE, errcode |-> 0]]}
    \cup [kind : {"response"}, status : {200, 399, 400}, body : RespBodies]

\* emitWebhookBestEffort: the first index of the list with this id / name
FindById(notifs, x) ==
    LET hits == {i \in 1..Len(notifs) : notifs[i].id = x}
    IN  IF hits = {} THEN 0 ELSE CHOOSE i \in hits : \A j \in hits : i <= j

FindByName(notifs, x) ==
    LET hits == {i \in 1..Len(notifs) : notifs[i].name = x}
    IN  IF hits = {} THEN 0 ELSE CHOOSE i \in hits : \A j \in hits : i <= j

NoTarget == [via |-> "none", name |-> "", type |-> "", index |-> 0]

\* mutant: a name match is looked for before an id match
ResolveNameFirst(notifs, legacy, x) ==
    IF FindByName(notifs, x) # 0
    THEN [via |-> "name", name |-> notifs[FindByName(notifs, x)].name,
          type |-> notifs[FindByName(notifs, x)].type,
          index |-> FindByName(notifs, x)]
    ELSE IF FindById(notifs, x) # 0
    THEN [via |-> "id", name |-> notifs[FindById(notifs, x)].name,
          type |-> notifs[FindById(notifs, x)].type,
          index |-> FindById(notifs, x)]
    ELSE IF \E w \in legacy : w.name = x
    THEN LET w == CHOOSE w \in legacy : w.name = x
         IN  [via |-> "legacy", name |-> w.name, type |-> w.type, index |-> 0]
    ELSE NoTarget

\* emitWebhookBestEffort and Dispatcher.SendWebhook: the webhook one
\* element of notifyWebhookIds is sent to
Resolve(notifs, legacy, x) ==
    IF FindById(notifs, x) # 0
    THEN [via |-> "id", name |-> notifs[FindById(notifs, x)].name,
          type |-> notifs[FindById(notifs, x)].type,
          index |-> FindById(notifs, x)]
    ELSE IF FindByName(notifs, x) # 0
    THEN [via |-> "name", name |-> notifs[FindByName(notifs, x)].name,
          type |-> notifs[FindByName(notifs, x)].type,
          index |-> FindByName(notifs, x)]
    ELSE IF \E w \in legacy : w.name = x
    THEN LET w == CHOOSE w \in legacy : w.name = x
         IN  [via |-> "legacy", name |-> w.name, type |-> w.type, index |-> 0]
    ELSE NoTarget

\* mutant: the errcode of the body is not looked at
SendFailsByStatus(type, resp) ==
    \/ resp.kind = "error"
    \/ resp.status >= 400

\* Send: whether it returns an error
SendFails(type, resp) ==
    \/ resp.kind = "error"
    \/ resp.status >= 400
    \/ /\ type = "dingtalk"
       /\ resp.body.json
       /\ resp.body.errcode # 0

\* mutant: the loop ends at the first delivery that fails
KeepGoingIfDelivered(failed) == ~failed

\* emitWebhookBestEffort: _ = notify.Send(...), then the next element
KeepGoing(failed) == TRUE

\* the engine at rest; any store notifications, legacy webhooks and
\* notifyWebhookIds of monitor "a"
InitNotify ==
    /\ arr = <<[id |-> "a", type |-> "container", isPaused |-> FALSE,
                intervalSeconds |-> 1, timeoutSeconds |-> 1,
                remediation |-> NoRemediation],
               [id |-> "b", type |-> "http", isPaused |-> FALSE,
                intervalSeconds |-> 0, timeoutSeconds |-> 5,
                remediation |-> NoRemediation]>>
    /\ cfgHist = [id \in MonitorIds |-> {NoRemediation}]
    /\ slen = 2
    /\ pend = NoPend
    /\ apiOps = 0
    /\ pausedAll = {}
    /\ goneAll = {}
    /\ lastStatus = [id \in MonitorIds |-> Absent]
    /\ lastCheck = [id \in MonitorIds |-> 0]
    /\ history = [id \in MonitorIds |-> <<>>]
    /\ attempts = [id \in MonitorIds |-> 0]
    /\ remediateAt = [id \in MonitorIds |-> 0]
    /\ cancelled = FALSE
    /\ wg = 0
    /\ stopPc = "none"
    /\ loopPc = "idle"
    /\ loopNow = 0
    /\ snap = SharedSnap
    /\ snapLen = 0
    /\ idx = 0
    /\ nextRun = [id \in MonitorIds |-> 0]
    /\ probes = {}
    /\ cstate = "exited"
    /\ clock = 0
    /\ tickChan = 0
    /\ dropped = FALSE
    /\ lastAct = [id \in MonitorIds |-> NoAct]
    /\ lastRemEvt = [id \in MonitorIds |-> NoEvt]
    /\ lastProbe = [id \in MonitorIds |-> NoProbe]
    /\ remSinceUp = [id \in MonitorIds |-> 0]
    /\ pausedSince = [id \in MonitorIds |-> FALSE]
    /\ histTarget = "none"
    /\ engHist = <<>>
    /\ storeHist = <<>>
    /\ fed = <<>>
    /\ nStore \in SeqsUpTo(Notifications, MaxNotifs)
    /\ nLegacy \in SUBSET LegacyWebhooks
    /\ nIds \in SeqsUpTo(HookNames, MaxHookIds)
    /\ nPc = "idle"
    /\ nPos = 0
    /\ nLog = <<>>
    /\ nLast = NoSend
    /\ nProbes = 0
    /\ UpsertOff
    /\ CopyOff
    /\ AuxOff

\* checkOnce of monitor "a" from the check's result on: the transition
\* rules, then emitNotification if the status changed
NotifyProbe ==
    /\ nPc \in {"idle", "returned"}
    /\ nProbes < MaxNotifyProbes
    /\ \E status \in {StatusUp, StatusDown} :
          LET p == [id |-> "a", m |-> arr[1], now |-> nProbes + 1,
                    deadline |-> 0, phase |-> "check"]
          IN  /\ Transition(p, status, attempts)
              /\ IF ShouldEmit(status, getLastStatus("a")) /\ nIds # <<>>
                 THEN nPc' = "emit" /\ nPos' = 1
                 ELSE nPc' = "returned" /\ nPos' = 0
    /\ nProbes' = nProbes + 1
    /\ nLog' = <<>>
    /\ nLast' = NoSend
    /\ UNCHANGED <<storeVars, remediateAt, lifeVars, loopVars, timeVars, probes,
                   cstate, lastAct, lastRemEvt, histVars, nStore, nLegacy, nIds,
                   upsVars, auxVars, copyVars>>

\* emitWebhookBestEffort: one iteration of "for _, id := range
\* m.NotifyWebhookIDs"
EmitStep ==
    /\ nPc = "emit"
    /\ LET t == Resolve(nStore, nLegacy, nIds[nPos]) IN
       \E resp \in (IF t.via = "none" THEN {CHOOSE r \in Responses : r.kind = "error"}
                    ELSE Responses) :
          LET failed == t.via # "none" /\ SendFails(t.type, resp) IN
          /\ nLog' = Append(nLog, [via |-> t.via, index |-> t.index,
                                   name |-> t.name, failed |-> failed])
          /\ nLast' = IF t.via = "none" THEN nLast
                      ELSE [type |-> t.type, resp |-> resp, failed |-> failed]
          /\ IF KeepGoing(failed) /\ nPos < Len(nIds)
             THEN nPos' = nPos + 1 /\ UNCHANGED nPc
             ELSE nPos' = 0 /\ nPc' = "returned"
    /\ UNCHANGED <<storeVars, mapVars, lifeVars, loopVars, timeVars, obsVars,
                   probes, cstate, histVars, nStore, nLegacy, nIds, nProbes,
                   upsVars, auxVars, copyVars>>

NextNotify == NotifyProbe \/ EmitStep

SpecNotify == InitNotify /\ [][NextNotify]_vars

(* ---------------------------- store harness ---------------------------- *)

\* the engine, the API and the other harnesses at rest
AtRest ==
    /\ arr = <<[id |-> "a", type |-> "container", isPaused |-> FALSE,
                intervalSeconds |-> 1, timeoutSeconds |-> 1,
                remediation |-> NoRemediation],
               [id |-> "b", type |-> "http", isPaused |-> FALSE,
                intervalSeconds |-> 0, timeoutSeconds |-> 5,
                remediation |-> NoRemediation]>>
    /\ cfgHist = [id \in MonitorIds |-> {NoRemediation}]
    /\ slen = 2
    /\ pend = NoPend
    /\ apiOps = 0
    /\ pausedAll = {}
    /\ goneAll = {}
    /\ lastStatus = [id \in MonitorIds |-> Absent]
    /\ lastCheck = [id \in MonitorIds |-> 0]
    /\ history = [id \in MonitorIds |-> <<>>]
    /\ attempts = [id \in MonitorIds |-> 0]
    /\ remediateAt = [id \in MonitorIds |-> 0]
    /\ cancelled = FALSE
    /\ wg = 0
    /\ stopPc = "none"
    /\ loopPc = "idle"
    /\ loopNow = 0
    /\ snap = SharedSnap
    /\ snapLen = 0
    /\ idx = 0
    /\ nextRun = [id \in MonitorIds |-> 0]
    /\ probes = {}
    /\ cstate = "exited"
    /\ clock = 0
    /\ tickChan = 0
    /\ dropped = FALSE
    /\ lastAct = [id \in MonitorIds |-> NoAct]
    /\ lastRemEvt = [id \in MonitorIds |-> NoEvt]
    /\ lastProbe = [id \in MonitorIds |-> NoProbe]
    /\ remSinceUp = [id \in MonitorIds |-> 0]
    /\ pausedSince = [id \in MonitorIds |-> FALSE]
    /\ histTarget = "none"
    /\ engHist = <<>>
    /\ storeHist = <<>>
    /\ fed = <<>>

\* the first index of the list whose element has this id, 0 if none
RowOfId(rows, id) ==
    LET hits == {i \in 1..Len(rows) : rows[i].id = id}
    IN  IF hits = {} THEN 0 ELSE CHOOSE i \in hits : \A j \in hits : i <= j

\* JSONStore.UpsertMonitor with its timestamps: an existing monitor keeps
\* the stored CreatedAt, a new one gets CreatedAt = now
JSONStoreUpsertMonitor(rows, m, now) ==
    LET i == RowOfId(rows, m.id) IN
    IF i # 0
    THEN [rows EXCEPT ![i] = [m EXCEPT !.createdAt = rows[i].createdAt,
                                       !.updatedAt = now]]
    ELSE Append(rows, [m EXCEPT !.createdAt = now, !.updatedAt = now])

\* SQLiteStore.UpsertMonitor: the row's data is the JSON of m with
\* UpdatedAt = now and, if CreatedAt is zero, CreatedAt = now
SQLiteStoreUpsertMonitor(rows, m, now) ==
    LET i == RowOfId(rows, m.id)
        v == [m EXCEPT !.createdAt = IF @ = 0 THEN now ELSE @, !.updatedAt = now]
    IN  IF i # 0 THEN [rows EXCEPT ![i] = v] ELSE Append(rows, v)

\* the monitor with this id in what GetState returns
ReadBack(rows, id) == rows[RowOfId(rows, id)]

\* Monitor values a caller passes to UpsertMonitor at time now
StampedMonitors(now) ==
    [id : MonitorIds, isPaused : BOOLEAN, createdAt : 0..(now - 1),
     updatedAt : {0}]

InitUpsert ==
    /\ AtRest
    /\ NotifyOff
    /\ uKind \in {"json", "sqlite"}
    /\ uRows = <<>>
    /\ uNow = 1
    /\ uLast = NoUpsert
    /\ CopyOff
    /\ AuxOff

\* JSONStore: UpsertMonitor(m), then GetState
UpsertJSON ==
    /\ uKind = "json"
    /\ uNow <= MaxUpserts
    /\ \E m \in StampedMonitors(uNow) :
          /\ uRows' = JSONStoreUpsertMonitor(uRows, m, uNow)
          /\ uLast' = [m |-> m, got |-> ReadBack(uRows', m.id)]
    /\ uNow' = uNow + 1
    /\ UNCHANGED <<storeVars, mapVars, lifeVars, loopVars, timeVars, obsVars,
                   probes, cstate, histVars, notifVars, uKind, auxVars, copyVars>>

\* SQLiteStore: UpsertMonitor(m), then GetState
UpsertSQLite ==
    /\ uKind = "sqlite"
    /\ uNow <= MaxUpserts
    /\ \E m \in StampedMonitors(uNow) :
          /\ uRows' = SQLiteStoreUpsertMonitor(uRows, m, uNow)
          /\ uLast' = [m |-> m, got |-> ReadBack(uRows', m.id)]
    /\ uNow' = uNow + 1
    /\ UNCHANGED <<storeVars, mapVars, lifeVars, loopVars, timeVars, obsVars,
                   probes, cstate, histVars, notifVars, uKind, auxVars, copyVars>>

NextUpsert == UpsertJSON \/ UpsertSQLite

SpecUpsert == InitUpsert /\ [][NextUpsert]_vars

(* ---------------------------- reader harness --------------------------- *)

\* mutant: GetHistory returns e.history[id] itself
GetHistoryItself(id) ==
    [taken |-> TRUE, id |-> id, alias |-> TRUE, null |-> history[id] = <<>>,
     data |-> history[id], mutated |-> FALSE]

\* Engine.GetHistory: an empty list for an id without history, else a
\* copy of the list
GetHistory(id) ==
    [taken |-> TRUE, id |-> id, alias |-> FALSE, null |-> FALSE,
     data |-> history[id], mutated |-> FALSE]

\* the ids that have an entry in e.lastStatus
StatusKeys == {id \in MonitorIds : lastStatus[id] # Absent}

\* Engine.StatusSnapshot: a new map built from lastStatus and lastCheck
StatusSnapshot ==
    [taken |-> TRUE,
     data |-> [id \in StatusKeys |->
                 [status |-> lastStatus[id], lastCheck |-> lastCheck[id]]],
     mutated |-> FALSE]

InitCopy ==
    /\ AtRest
    /\ NotifyOff
    /\ UpsertOff
    /\ CopyOff
    /\ AuxOff

\* checkOnce of a monitor from the check's result on
CopyProbe ==
    /\ gProbes < MaxCopyProbes
    /\ \E id \in MonitorIds : \E status \in {StatusUp, StatusDown} :
          Transition([id |-> id, m |-> arr[IF id = "a" THEN 1 ELSE 2],
                      now |-> gProbes + 1, deadline |-> 0, phase |-> "check"],
                     status, attempts)
    /\ gProbes' = gProbes + 1
    /\ UNCHANGED <<storeVars, remediateAt, lifeVars, loopVars, timeVars, probes,
                   cstate, lastAct, lastRemEvt, histVars, notifVars, upsVars, auxVars,
                   gHist, gSnap>>

\* GET /api/monitors/{id}/history: a caller gets GetHistory(id)
CallGetHistory ==
    /\ \E id \in MonitorIds : gHist' = GetHistory(id)
    /\ gHist' # gHist
    /\ UNCHANGED <<storeVars, mapVars, lifeVars, loopVars, timeVars, obsVars,
                   probes, cstate, histVars, notifVars, upsVars, auxVars, gSnap, gProbes>>

\* a caller gets StatusSnapshot()
CallStatusSnapshot ==
    /\ gSnap' = StatusSnapshot
    /\ gSnap' # gSnap
    /\ UNCHANGED <<storeVars, mapVars, lifeVars, loopVars, timeVars, obsVars,
                   probes, cstate, histVars, notifVars, upsVars, auxVars, gHist, gProbes>>

\* the caller overwrites the first entry of the list it was given; the
\* write reaches the engine's list if that is the same array
MutateReturnedHistory ==
    /\ gHist.taken /\ ~gHist.mutated /\ gHist.data # <<>>
    /\ LET new == [gHist.data EXCEPT ![1].status = "mutated"] IN
       /\ gHist' = [gHist EXCEPT !.data = new, !.mutated = TRUE]
       /\ history' = IF gHist.alias /\ history[gHist.id] = gHist.data
                     THEN [history EXCEPT ![gHist.id] = new] ELSE history
    /\ UNCHANGED <<storeVars, lastStatus, lastCheck, attempts, remediateAt,
                   lifeVars, loopVars, timeVars, obsVars, probes, cstate,
                   histVars, notifVars, upsVars, auxVars, gSnap, gProbes>>

\* the caller overwrites an entry of the map it was given
MutateReturnedSnapshot ==
    /\ gSnap.taken /\ ~gSnap.mutated
    /\ \E id \in DOMAIN gSnap.data :
          gSnap' = [gSnap EXCEPT !.data[id].status = "mutated", !.mutated = TRUE]
    /\ UNCHANGED <<storeVars, mapVars, lifeVars, loopVars, timeVars, obsVars,
                   probes, cstate, histVars, notifVars, upsVars, auxVars, gHist, gProbes>>

NextCopy ==
    \/ CopyProbe
    \/ CallGetHistory
    \/ CallStatusSnapshot
    \/ MutateReturnedHistory
    \/ MutateReturnedSnapshot

SpecCopy == InitCopy /\ [][NextCopy]_vars

(* ----------------------------- gate harness ---------------------------- *)

\* the remediation policies of the monitor the goroutines remediate
GatePolicies ==
    { [action |-> "restart", maxAttempts |-> 1, cooldownSeconds |-> 0],
      [action |-> "restart", maxAttempts |-> 2, cooldownSeconds |-> 0],
      [action |-> "start",   maxAttempts |-> 2, cooldownSeconds |-> 6] }

\* the times of the ticks the invocations belong to
GateNows == {1, 6, 7}

\* what a gate harness step leaves alone
gateFrame == <<storeVars, lastStatus, lastCheck, history, lifeVars, loopVars,
               timeVars, obsVars, probes, cstate, histVars, notifVars, upsVars,
               copyVars, ctrVars, httpVars, writerVars, discordVars, extVars>>

\* the engine at rest; two goroutines are about to call tryRemediate for
\* monitor "a", whose policy is enabled
InitGate ==
    /\ AtRest
    /\ NotifyOff
    /\ UpsertOff
    /\ CopyOff
    /\ ExtOff
    /\ ContainerOff
    /\ HTTPOff
    /\ WriterOff
    /\ DiscordOff
    /\ rPc = [t \in Goroutines |-> "idle"]
    /\ rMu = 0
    /\ rNow = [t \in Goroutines |-> 0]
    /\ rSeen = [t \in Goroutines |-> 0]
    /\ rPol \in GatePolicies
    /\ rPasses = <<>>
    /\ rCalls = [t \in Goroutines |-> 0]

\* a variant of the lock that excludes nobody
AcquireAnyway(t) == TRUE

\* e.mu.Lock() returns to goroutine t: nobody holds the lock
Acquire(t) == rMu = 0

\* tryRemediate(ctx, now, m) is called; the policy passes the checks made
\* before the lock
GateCall(t) ==
    /\ rPc[t] = "idle"
    /\ rCalls[t] < MaxGateCalls
    /\ RemediationEnabled(rPol)
    /\ \E now \in GateNows : rNow' = [rNow EXCEPT ![t] = now]
    /\ rCalls' = [rCalls EXCEPT ![t] = @ + 1]
    /\ rPc' = [rPc EXCEPT ![t] = "lock"]
    /\ UNCHANGED <<attempts, remediateAt, rMu, rSeen, rPol, rPasses, gateFrame>>

\* e.mu.Lock()
GateLock(t) ==
    /\ rPc[t] = "lock"
    /\ Acquire(t)
    /\ rMu' = t
    /\ rPc' = [rPc EXCEPT ![t] = "cooldown"]
    /\ UNCHANGED <<attempts, remediateAt, rNow, rSeen, rPol, rPasses, rCalls,
                   gateFrame>>

\* next := e.remediateAt[m.ID]; in the cooldown: Unlock and return
GateCooldown(t) ==
    /\ rPc[t] = "cooldown"
    /\ IF remediateAt["a"] # 0 /\ rNow[t] < remediateAt["a"]
       THEN /\ rMu' = 0
            /\ rPc' = [rPc EXCEPT ![t] = "idle"]
       ELSE /\ rPc' = [rPc EXCEPT ![t] = "cap"]
            /\ UNCHANGED rMu
    /\ UNCHANGED <<attempts, remediateAt, rNow, rSeen, rPol, rPasses, rCalls,
                   gateFrame>>

\* e.attempts[m.ID] >= p.MaxAttempts: Unlock and return
GateCap(t) ==
    /\ rPc[t] = "cap"
    /\ IF attempts["a"] >= rPol.maxAttempts
       THEN /\ rMu' = 0
            /\ rPc' = [rPc EXCEPT ![t] = "idle"]
            /\ UNCHANGED rSeen
       ELSE /\ rPc' = [rPc EXCEPT ![t] = "update"]
            /\ rSeen' = [rSeen EXCEPT ![t] = attempts["a"]]
            /\ UNCHANGED rMu
    /\ UNCHANGED <<attempts, remediateAt, rNow, rPol, rPasses, rCalls, gateFrame>>

\* e.attempts[m.ID]++, e.remediateAt[m.ID] = ..., e.mu.Unlock()
GateUpdate(t) ==
    /\ rPc[t] = "update"
    /\ attempts' = [attempts EXCEPT !["a"] = @ + 1]
    /\ remediateAt' = [remediateAt EXCEPT !["a"] = NextRemediateAt(rNow[t], rPol)]
    /\ rPasses' = Append(rPasses, rSeen[t])
    /\ rMu' = 0
    /\ rPc' = [rPc EXCEPT ![t] = "io"]
    /\ UNCHANGED <<rNow, rSeen, rPol, rCalls, gateFrame>>

\* Docker.Start or Docker.Restart returns; an error is logged
GateAction(t) ==
    /\ rPc[t] = "io"
    /\ \E ok \in BOOLEAN :
          rPc' = [rPc EXCEPT ![t] = IF ok THEN "attempt" ELSE "idle"]
    /\ UNCHANGED <<attempts, remediateAt, rMu, rNow, rSeen, rPol, rPasses, rCalls,
                   gateFrame>>

\* e.getAttempts(m.ID) for the payload: RLock, read, RUnlock
GateGetAttempts(t) ==
    /\ rPc[t] = "attempt"
    /\ Acquire(t)
    /\ rPc' = [rPc EXCEPT ![t] = "send"]
    /\ UNCHANGED <<attempts, remediateAt, rMu, rNow, rSeen, rPol, rPasses, rCalls,
                   gateFrame>>

\* emitWebhookBestEffort returns
GateSend(t) ==
    /\ rPc[t] = "send"
    /\ rPc' = [rPc EXCEPT ![t] = "idle"]
    /\ UNCHANGED <<attempts, remediateAt, rMu, rNow, rSeen, rPol, rPasses, rCalls,
                   gateFrame>>

NextGate ==
    \E t \in Goroutines :
        \/ GateCall(t)
        \/ GateLock(t)
        \/ GateCooldown(t)
        \/ GateCap(t)
        \/ GateUpdate(t)
        \/ GateAction(t)
        \/ GateGetAttempts(t)
        \/ GateSend(t)

SpecGate == InitGate /\ [][NextGate]_vars

(* -------------------------- container harness -------------------------- *)

\* remediation policies: enabled ones, and ones tryRemediate returns on
HarnessPolicies ==
    { [action |-> "restart", maxAttempts |-> 1, cooldownSeconds |-> 0],
      [action |-> "start",   maxAttempts |-> 2, cooldownSeconds |-> 0],
      [action |-> "restart", maxAttempts |-> 0, cooldownSeconds |-> 0],
      [action |-> "start",   maxAttempts |-> -1, cooldownSeconds |-> 0],
      [action |-> "none",    maxAttempts |-> 1, cooldownSeconds |-> 0],
      [action |-> "",        maxAttempts |-> 1, cooldownSeconds |-> 0],
      [action |-> "stop",    maxAttempts |-> 1, cooldownSeconds |-> 0] }

\* values of logs: not included, or included with a tail that is
\* negative, zero, one or more
LogOptions ==
    {[include |-> FALSE, tail |-> 20]} \cup
    {[include |-> TRUE, tail |-> tail] : tail \in {-1, 0, 1, 20}}

\* the container monitors checkContainer is given
ContainerMonitors ==
    {NoContainer} \cup
    { [hasContainer |-> TRUE, containerId |-> cid, hasRestartPolicy |-> rp.has,
       restartPolicy |-> rp.p, remediation |-> pol, logs |-> logs] :
         cid \in {"", "c1"},
         rp \in { [has |-> FALSE, p |-> NoRestartPolicy],
                  [has |-> TRUE, p |-> NoRestartPolicy],
                  [has |-> TRUE,
                   p |-> [name |-> "always", maximumRetryCount |-> 3]] },
         pol \in HarnessPolicies,
         logs \in LogOptions }

\* what the runtime answers in one call of checkContainer: ContainerState
\* (an error, or the state), UpdateRestartPolicy, Start/Restart, Logs (an
\* error, or text)
Outcomes ==
    { [stateErr |-> s.err, state |-> s.state, policyErr |-> pe, actionOk |-> ok,
       logs |-> l] :
         s \in { [err |-> TRUE, state |-> ""] } \cup
                { [err |-> FALSE, state |-> st] :
                     st \in {"running", "exited", "Running"} },
         pe \in BOOLEAN,
         ok \in BOOLEAN,
         l \in {"error", "text"} }

\* a call of a method of the engine or of the container runtime
Call(op, name, n, tail) == [op |-> op, name |-> name, n |-> n, tail |-> tail]

DigitChars == <<"0", "1", "2", "3", "4", "5", "6", "7", "8", "9">>

\* itoa: the decimal digits of n; the loop runs while n > 0
RECURSIVE itoaLoop(_)
itoaLoop(n) ==
    IF n > 0 THEN Append(itoaLoop(n \div 10), DigitChars[(n % 10) + 1]) ELSE <<>>

itoa(n) == IF n = 0 THEN <<"0">> ELSE itoaLoop(n)

intToTail(n) == IF n <= 0 THEN <<"a", "l", "l">> ELSE itoa(n)

\* tryAttachLogs: tail := m.Logs.Tail; if tail <= 0 { tail = 200 }
LogTail(tail) == IF tail <= 0 THEN DefaultTail ELSE tail

\* tryAttachLogs: the calls it makes and whether it returns an attachment
tryAttachLogs(m, o) ==
    IF ~m.hasContainer \/ ~m.logs.include
    THEN [calls |-> <<Call("tryAttachLogs", "", 0, <<>>)>>, logs |-> FALSE]
    ELSE [calls |-> <<Call("tryAttachLogs", "", 0, <<>>),
                      Call("Logs", m.containerId, 0,
                           intToTail(LogTail(m.logs.tail)))>>,
          logs |-> (o.logs = "text")]

\* a variant that reconciles the policy only when the call can succeed
applyRestartPolicyIfOk(m, o) ==
    <<Call("applyRestartPolicy", "", 0, <<>>)>> \o
    (IF ~m.hasContainer \/ ~m.hasRestartPolicy \/ m.restartPolicy.name = ""
        \/ o.policyErr
     THEN <<>>
     ELSE <<Call("UpdateRestartPolicy", m.restartPolicy.name,
                 m.restartPolicy.maximumRetryCount, <<>>)>>)

\* applyRestartPolicy: the calls it makes; the error is discarded
applyRestartPolicy(m, o) ==
    <<Call("applyRestartPolicy", "", 0, <<>>)>> \o
    (IF ~m.hasContainer \/ ~m.hasRestartPolicy \/ m.restartPolicy.name = ""
     THEN <<>>
     ELSE <<Call("UpdateRestartPolicy", m.restartPolicy.name,
                 m.restartPolicy.maximumRetryCount, <<>>)>>)

\* tryRemediate for monitor "a": the calls it makes, the events it sends
\* and the values it leaves in attempts and remediateAt
tryRemediate(m, now, o) ==
    LET p == m.remediation
        same == [calls |-> <<Call("tryRemediate", "", 0, <<>>)>>, events |-> <<>>,
                 attempts |-> attempts["a"], remediateAt |-> remediateAt["a"]]
        gated == [same EXCEPT !.attempts = attempts["a"] + 1,
                              !.remediateAt = NextRemediateAt(now, p)]
        acted == [gated EXCEPT
                    !.calls = @ \o <<Call(IF p.action = "start" THEN "Start"
                                          ELSE "Restart", m.containerId, 0, <<>>)>>,
                    !.events = IF EmitsRemediated(o.actionOk)
                               THEN <<[type |-> "remediated", action |-> p.action,
                                       attempt |-> attempts["a"] + 1]>>
                               ELSE <<>>]
    IN  IF ~m.hasContainer THEN same
        ELSE IF ~RemediationEnabled(p) THEN same
        ELSE IF ~GatePass("a", now, p) THEN same
        ELSE IF p.action \in {"start", "restart"} THEN acted
        ELSE gated

\* a variant that takes either spelling for running
IsRunningAnyCase(state) == state \in {"running", "Running"}

\* checkContainer: if state == "running"
IsRunning(state) == state = "running"

\* checkContainer for monitor "a"
checkContainer(m, now, o) ==
    LET unchanged == [attempts |-> attempts["a"], remediateAt |-> remediateAt["a"],
                      events |-> <<>>]
        got == <<Call("ContainerState", m.containerId, 0, <<>>)>>
    IN  IF ~m.hasContainer \/ m.containerId = ""
        THEN unchanged @@ [status |-> StatusDown, message |-> "missing container id",
                           logs |-> FALSE, calls |-> <<>>]
        ELSE IF o.stateErr
        THEN LET l == tryAttachLogs(m, o) IN
             unchanged @@ [status |-> StatusDown, message |-> "error",
                           logs |-> l.logs, calls |-> got \o l.calls]
        ELSE IF IsRunning(o.state)
        THEN unchanged @@ [status |-> StatusUp, message |-> o.state,
                           logs |-> FALSE, calls |-> got]
        ELSE LET a == applyRestartPolicy(m, o)
                 r == tryRemediate(m, now, o)
                 l == tryAttachLogs(m, o)
             IN  [status |-> StatusDown, message |-> o.state, logs |-> l.logs,
                  calls |-> got \o a \o r.calls \o l.calls,
                  events |-> r.events, attempts |-> r.attempts,
                  remediateAt |-> r.remediateAt]

\* the engine at rest, a container monitor "a"
InitContainer ==
    /\ AtRest
    /\ NotifyOff
    /\ UpsertOff
    /\ CopyOff
    /\ ExtOff
    /\ GateOff
    /\ HTTPOff
    /\ WriterOff
    /\ DiscordOff
    /\ kMon \in ContainerMonitors
    /\ kNow = 0
    /\ kOut = NoOutcome
    /\ kRes = NoResult
    /\ kProbes = 0

\* checkOnce calls checkContainer(ctx, now, m) on a later tick
ContainerProbe ==
    /\ kProbes < MaxContainerProbes
    /\ \E now \in {kNow + 1, kNow + 5} : \E o \in Outcomes :
          LET res == checkContainer(kMon, now, o) IN
          /\ kNow' = now
          /\ kOut' = o
          /\ kRes' = res
          /\ attempts' = [attempts EXCEPT !["a"] = res.attempts]
          /\ remediateAt' = [remediateAt EXCEPT !["a"] = res.remediateAt]
    /\ kProbes' = kProbes + 1
    /\ UNCHANGED <<storeVars, lastStatus, lastCheck, history, lifeVars, loopVars,
                   timeVars, obsVars, probes, cstate, histVars, notifVars, upsVars,
                   copyVars, gateVars, httpVars, writerVars, discordVars, extVars,
                   kMon>>

NextContainer == ContainerProbe

SpecContainer == InitContainer /\ [][NextContainer]_vars

(* ----------------------------- HTTP harness ---------------------------- *)

\* the HTTP monitors checkHTTP is given: no HTTP, an empty url, a url, a
\* url that http.NewRequestWithContext rejects
HTTPMonitors ==
    {NoHTTP} \cup {[hasHTTP |-> TRUE, url |-> u] : u \in {"", "http://x", "::"}}

\* status codes of a response
StatusCodes == {100, 199, 200, 204, 301, 399, 400, 404, 500}

\* what the GET meets: a transport error, the deadline of the probe, or a
\* response; and the milliseconds it took
Gets ==
    { [kind |-> k, code |-> 0, elapsed |-> ms] :
         k \in {"error", "deadline"}, ms \in {0, 1500} } \cup
    { [kind |-> "response", code |-> c, elapsed |-> ms] :
         c \in StatusCodes, ms \in {0, 1500} }

\* a variant that takes 400 for a success
IsSuccessUpTo400(code) == code >= 200 /\ code <= 400

\* checkHTTP: resp.StatusCode >= 200 && resp.StatusCode < 400
IsSuccess(code) == code >= 200 /\ code < 400

\* checkHTTP
checkHTTP(m, o) ==
    IF ~m.hasHTTP \/ m.url = ""
    THEN [status |-> StatusDown, message |-> "missing url", latencyMs |-> 0,
          requests |-> 0]
    ELSE IF m.url = "::"
    THEN [status |-> StatusDown, message |-> "request error", latencyMs |-> 0,
          requests |-> 0]
    ELSE IF o.kind # "response"
    THEN [status |-> StatusDown, message |-> o.kind, latencyMs |-> o.elapsed,
          requests |-> 1]
    ELSE [status |-> IF IsSuccess(o.code) THEN StatusUp ELSE StatusDown,
          message |-> "resp.Status", latencyMs |-> o.elapsed, requests |-> 1]

\* the engine at rest, an HTTP monitor
InitHTTP ==
    /\ AtRest
    /\ NotifyOff
    /\ UpsertOff
    /\ CopyOff
    /\ ExtOff
    /\ GateOff
    /\ ContainerOff
    /\ WriterOff
    /\ DiscordOff
    /\ hMon \in HTTPMonitors
    /\ hOut = NoGet
    /\ hRes = NoCheck
    /\ hProbes = 0

\* checkOnce calls checkHTTP(ctx, now, m)
HTTPProbe ==
    /\ hProbes < MaxHTTPProbes
    /\ \E o \in Gets :
          /\ hOut' = o
          /\ hRes' = checkHTTP(hMon, o)
    /\ hProbes' = hProbes + 1
    /\ UNCHANGED <<storeVars, mapVars, lifeVars, loopVars, timeVars, obsVars,
                   probes, cstate, histVars, notifVars, upsVars, copyVars,
                   gateVars, ctrVars, writerVars, discordVars, extVars, hMon>>

NextHTTP == HTTPProbe

SpecHTTP == InitHTTP /\ [][NextHTTP]_vars

(* ---------------------------- writer harness --------------------------- *)

\* A byte slice is a list of runs <<from, to>> of the positions from..to-1
\* of the stream that is given to Write.

\* the maxBytes given to newLimitedWriter, the lengths of the slices
\* given to Write
MaxBytesArgs == {-1, 0, 1, 2, 3, 5}
WriteLens == {0, 1, 2, 3, 65535, 65536, 70000}

\* len(b)
RECURSIVE BytesLen(_)
BytesLen(b) ==
    IF b = <<>> THEN 0 ELSE (Head(b)[2] - Head(b)[1]) + BytesLen(Tail(b))

\* the positions of b are 0..n-1 in this order
RECURSIVE IsStreamPrefix(_, _, _)
IsStreamPrefix(b, from, n) ==
    IF b = <<>> THEN from = n
    ELSE Head(b)[1] = from /\ Head(b)[2] >= from
         /\ IsStreamPrefix(Tail(b), Head(b)[2], n)

\* newLimitedWriter: the max of the writer
newLimitedWriter(maxBytes) == IF maxBytes <= 0 THEN DefaultMaxBytes ELSE maxBytes

\* limitedWriter.Write(p), p the next n bytes of the stream: the buf and
\* truncated it leaves and the count it returns (the error is always nil)
Write(max, buf, truncated, from, n) ==
    LET remain == max - BytesLen(buf) IN
    IF remain <= 0
    THEN [buf |-> buf, truncated |-> TRUE, n |-> n]
    ELSE IF n <= remain
    THEN [buf |-> Append(buf, <<from, from + n>>), truncated |-> truncated, n |-> n]
    ELSE [buf |-> Append(buf, <<from, from + remain>>), truncated |-> TRUE, n |-> n]

\* the engine at rest; lw := newLimitedWriter(maxBytes)
InitWriter ==
    /\ AtRest
    /\ NotifyOff
    /\ UpsertOff
    /\ CopyOff
    /\ ExtOff
    /\ GateOff
    /\ ContainerOff
    /\ HTTPOff
    /\ DiscordOff
    /\ wMax \in {newLimitedWriter(maxBytes) : maxBytes \in MaxBytesArgs}
    /\ wBuf = <<>>
    /\ wTruncated = FALSE
    /\ wTotal = 0
    /\ wReturns = TRUE
    /\ wWrites = 0

\* stdcopy.StdCopy calls lw.Write(p) with the payload of the next frame
WriterWrite ==
    /\ wWrites < MaxWrites
    /\ \E n \in WriteLens :
          LET w == Write(wMax, wBuf, wTruncated, wTotal, n) IN
          /\ wBuf' = w.buf
          /\ wTruncated' = w.truncated
          /\ wReturns' = (wReturns /\ w.n = n)
          /\ wTotal' = wTotal + n
    /\ wWrites' = wWrites + 1
    /\ UNCHANGED <<storeVars, mapVars, lifeVars, loopVars, timeVars, obsVars,
                   probes, cstate, histVars, notifVars, upsVars, copyVars,
                   gateVars, ctrVars, httpVars, discordVars, extVars, wMax>>

NextWriter == WriterWrite

SpecWriter == InitWriter /\ [][NextWriter]_vars

(* --------------------------- discord harness --------------------------- *)

\* the two copies of package notify in the source: the file of the
\* package that the engine imports, and the copy that follows package
\* monitor
NotifyCopies == {"internal/notify/notify.go", "internal/docker/docker.go"}

\* event types, values of data["current"], times
PayloadTypes == {"status_changed", "remediated", "error", "down", "pending"}

Currents ==
    {NoCurrent, [has |-> TRUE, isString |-> FALSE, value |-> "down"]} \cup
    { [has |-> TRUE, isString |-> TRUE, value |-> v] :
         v \in {StatusUp, StatusDown, StatusPaused, StatusUnknown, "Down"} }

Payloads == [type : PayloadTypes, current : Currents, at : 1..3]

\* buildDiscordPayload of internal/notify/notify.go: the color of the embed
buildDiscordPayload(p) ==
    IF p.type = "down" THEN ColorRed
    ELSE IF p.type = "pending" THEN ColorYellow
    ELSE ColorGreen

\* buildDiscordPayload of the copy in internal/docker/docker.go: the color
\* of the embed
buildDiscordPayloadByData(p) ==
    IF p.current.has /\ p.current.isString /\ p.current.value = "down"
    THEN ColorRed ELSE ColorGreen

\* the engine at rest, one of the copies of package notify built
InitDiscord ==
    /\ AtRest
    /\ NotifyOff
    /\ UpsertOff
    /\ CopyOff
    /\ ExtOff
    /\ GateOff
    /\ ContainerOff
    /\ HTTPOff
    /\ WriterOff
    /\ dCopy \in NotifyCopies
    /\ dPayload = NoPayload
    /\ dColor = 0
    /\ dBuilds = 0

\* Send, case "discord": buildDiscordPayload(payload), notify.go
BuildDiscord ==
    /\ dCopy = "internal/notify/notify.go"
    /\ dBuilds < MaxBuilds
    /\ \E p \in Payloads :
          /\ dPayload' = p
          /\ dColor' = buildDiscordPayload(p)
    /\ dBuilds' = dBuilds + 1
    /\ UNCHANGED <<storeVars, mapVars, lifeVars, loopVars, timeVars, obsVars,
                   probes, cstate, histVars, notifVars, upsVars, copyVars,
                   gateVars, ctrVars, httpVars, writerVars, extVars, dCopy>>

\* Send, case "discord": buildDiscordPayload(payload), the copy
BuildDiscordByData ==
    /\ dCopy = "internal/docker/docker.go"
    /\ dBuilds < MaxBuilds
    /\ \E p \in Payloads :
          /\ dPayload' = p
          /\ dColor' = buildDiscordPayloadByData(p)
    /\ dBuilds' = dBuilds + 1
    /\ UNCHANGED <<storeVars, mapVars, lifeVars, loopVars, timeVars, obsVars,
                   probes, cstate, histVars, notifVars, upsVars, copyVars,
                   gateVars, ctrVars, httpVars, writerVars, extVars, dCopy>>

NextDiscord == BuildDiscord \/ BuildDiscordByData

SpecDiscord == InitDiscord /\ [][NextDiscord]_vars

(* ---------------------------- client harness --------------------------- *)

\* what NewClient meets: the connection to the runtime and its ping
Connects == [connectErr : BOOLEAN, pingErr : BOOLEAN]

\* names given to UpdateRestartPolicy
PolicyNames == {"always", "no"}

\* what the real runtime answers to a call
RuntimeAnswers == [err : BOOLEAN, state : {"running", "exited"}]

Summary(state, status, restartPolicy) ==
    [has |-> TRUE, state |-> state, status |-> status,
     restartPolicy |-> restartPolicy]

\* NewClient: useMock
UseMock(c) == c.connectErr \/ c.pingErr

\* NewClient: the records of the mock
NewMockDB ==
    [id \in ContainerIds |->
        CASE id = "mock-1" -> Summary("running", "Up 2 hours", "always")
          [] id = "mock-2" -> Summary("exited", "Exited (0) 10 minutes ago", "no")
          [] id = "mock-3" -> Summary("running", "Up 5 days", "on-failure")
          [] OTHER -> NoSummary]

\* what a method returns: the records after it, whether it returned an
\* error, the string and the ids it returned
Ret(db, err, out, ids) == [db |-> db, err |-> err, out |-> out, ids |-> ids]

\* Client.ListContainers
ListContainers(isMock, db, rt) ==
    IF isMock THEN Ret(db, FALSE, "", {id \in ContainerIds : db[id].has})
    ELSE Ret(db, rt.err, "", {})

\* Client.ContainerState
ContainerState(isMock, db, id, rt) ==
    IF isMock
    THEN IF db[id].has THEN Ret(db, FALSE, db[id].state, {})
         ELSE Ret(db, TRUE, "", {})
    ELSE Ret(db, rt.err, IF rt.err THEN "" ELSE rt.state, {})

\* a method of the mock that sets the state and the status of a record
SetState(isMock, db, id, rt, state, status) ==
    IF isMock
    THEN IF db[id].has
         THEN Ret([db EXCEPT ![id].state = state, ![id].status = status],
                  FALSE, "", {})
         ELSE Ret(db, TRUE, "", {})
    ELSE Ret(db, rt.err, "", {})

\* Client.Start
ClientStart(isMock, db, id, rt) ==
    SetState(isMock, db, id, rt, "running", "Up (Mock)")

\* Client.Stop
ClientStop(isMock, db, id, rt) ==
    SetState(isMock, db, id, rt, "exited", "Exited (Mock)")

\* Client.Restart
ClientRestart(isMock, db, id, rt) ==
    SetState(isMock, db, id, rt, "running", "Up (Mock Restarted)")

\* Client.UpdateRestartPolicy
UpdateRestartPolicy(isMock, db, id, name, rt) ==
    IF isMock
    THEN IF db[id].has
         THEN Ret([db EXCEPT ![id].restartPolicy = name], FALSE, "", {})
         ELSE Ret(db, TRUE, "", {})
    ELSE Ret(db, rt.err, "", {})

\* Client.Logs: the mock returns its text for every id
Logs(isMock, db, id, rt) ==
    IF isMock THEN Ret(db, FALSE, "logs", {})
    ELSE Ret(db, rt.err, IF rt.err THEN "" ELSE "logs", {})

\* Client.HasDocker
HasDocker(isMock, db, rt) ==
    IF isMock THEN Ret(db, FALSE, "true", {})
    ELSE Ret(db, FALSE, IF rt.err THEN "false" ELSE "true", {})

\* the engine at rest, a client as NewClient returns it
InitClient ==
    /\ AtRest
    /\ NotifyOff
    /\ UpsertOff
    /\ CopyOff
    /\ GateOff
    /\ ContainerOff
    /\ HTTPOff
    /\ WriterOff
    /\ DiscordOff
    /\ EmitOff
    /\ PersistOff
    /\ OrderOff
    /\ RestartOff
    /\ \E c \in Connects :
          /\ cIsMock = UseMock(c)
          /\ cMockDB = IF UseMock(c) THEN NewMockDB
                       ELSE [id \in ContainerIds |-> NoSummary]
    /\ cLast = NoClientCall
    /\ cOps = 0

\* a method of the client was called and returned r
Returned(op, id, r) ==
    /\ cOps < MaxClientOps
    /\ cOps' = cOps + 1
    /\ cMockDB' = r.db
    /\ cLast' = [op |-> op, id |-> id, err |-> r.err, out |-> r.out,
                 ids |-> r.ids]
    /\ UNCHANGED <<storeVars, mapVars, lifeVars, loopVars, timeVars, obsVars,
                   probes, cstate, histVars, notifVars, upsVars, copyVars,
                   gateVars, ctrVars, httpVars, writerVars, discordVars,
                   emitVars, persistVars, orderVars, restartVars, cIsMock>>

CallListContainers ==
    \E rt \in RuntimeAnswers :
       Returned("ListContainers", "", ListContainers(cIsMock, cMockDB, rt))

CallContainerState ==
    \E id \in ContainerIds, rt \in RuntimeAnswers :
       Returned("ContainerState", id, ContainerState(cIsMock, cMockDB, id, rt))

CallStart ==
    \E id \in ContainerIds, rt \in RuntimeAnswers :
       Returned("Start", id, ClientStart(cIsMock, cMockDB, id, rt))

CallStop ==
    \E id \in ContainerIds, rt \in RuntimeAnswers :
       Returned("Stop", id, ClientStop(cIsMock, cMockDB, id, rt))

CallRestart ==
    \E id \in ContainerIds, rt \in RuntimeAnswers :
       Returned("Restart", id, ClientRestart(cIsMock, cMockDB, id, rt))

CallUpdateRestartPolicy ==
    \E id \in ContainerIds, name \in PolicyNames, rt \in RuntimeAnswers :
       Returned("UpdateRestartPolicy", id,
                UpdateRestartPolicy(cIsMock, cMockDB, id, name, rt))

CallLogs ==
    \E id \in ContainerIds, rt \in RuntimeAnswers :
       Returned("Logs", id, Logs(cIsMock, cMockDB, id, rt))

CallHasDocker ==
    \E rt \in RuntimeAnswers :
       Returned("HasDocker", "", HasDocker(cIsMock, cMockDB, rt))

NextClient ==
    \/ CallListContainers
    \/ CallContainerState
    \/ CallStart
    \/ CallStop
    \/ CallRestart
    \/ CallUpdateRestartPolicy
    \/ CallLogs
    \/ CallHasDocker

SpecClient == InitClient /\ [][NextClient]_vars

(* ----------------------------- emit harness ---------------------------- *)

\* One HTTP monitor is probed by checkOnce; the clock advances while the
\* GET of the probe or the POST of a notification is in flight.

\* the monitor: timeoutSeconds and the number of channels its
\* notifyWebhookIds resolve to
EmitMonitors == [timeoutSeconds : {0, 1, 2}, channels : 1..MaxChannels]

\* checkOnce: the deadline of context.WithTimeout(e.ctx, ...)
ProbeDeadline(m, now) == now + maxInt(MinTimeout, m.timeoutSeconds)

\* ctx.Done() of the context made by checkOnce
ProbeCtxDone == tClock >= tDeadline

\* emitNotification(ctx, ...): the context given to notify.Send is the
\* context of the probe
SendCtxDone == ProbeCtxDone

\* the engine at rest, one monitor and its last status
InitEmit ==
    /\ AtRest
    /\ NotifyOff
    /\ UpsertOff
    /\ CopyOff
    /\ GateOff
    /\ ContainerOff
    /\ HTTPOff
    /\ WriterOff
    /\ DiscordOff
    /\ ClientOff
    /\ PersistOff
    /\ OrderOff
    /\ RestartOff
    /\ tPc = "idle"
    /\ tClock = 0
    /\ tDeadline = 0
    /\ tMon \in EmitMonitors
    /\ tPrev \in {Absent, StatusUp, StatusDown}
    /\ tRes = NoEmitResult
    /\ tTodo = 0
    /\ tPosts = <<>>
    /\ tProbes = 0

emitFrame == <<storeVars, mapVars, lifeVars, loopVars, timeVars, obsVars,
               probes, cstate, histVars, notifVars, upsVars, copyVars,
               gateVars, ctrVars, httpVars, writerVars, discordVars,
               clientVars, persistVars, orderVars, restartVars, tMon>>

\* checkOnce: ctx, cancel := context.WithTimeout(...); checkHTTP sends the GET
EmitCheckOnce ==
    /\ tPc = "idle"
    /\ tProbes < MaxEmitProbes
    /\ tProbes' = tProbes + 1
    /\ tDeadline' = ProbeDeadline(tMon, tClock)
    /\ tPc' = "get"
    /\ tPosts' = <<>>
    /\ UNCHANGED <<emitFrame, tClock, tPrev, tRes, tTodo>>

\* a second passes while a request is in flight and its context is live
EmitTick ==
    /\ tPc \in {"get", "post"}
    /\ ~ProbeCtxDone
    /\ tClock' = tClock + 1
    /\ UNCHANGED <<emitFrame, tPc, tDeadline, tPrev, tRes, tTodo, tPosts, tProbes>>

\* checkHTTP returns: the deadline expired, or a response or an error came
\* in time; checkOnce sets lastStatus and, on a change of status, calls
\* emitNotification
EmitGetReturn ==
    /\ tPc = "get"
    /\ \E r \in (IF ProbeCtxDone
                 THEN {[status |-> StatusDown, cause |-> "deadline"]}
                 ELSE {[status |-> StatusUp, cause |-> "response"],
                       [status |-> StatusDown, cause |-> "response"],
                       [status |-> StatusDown, cause |-> "error"]}) :
          /\ tRes' = r
          /\ tPrev' = r.status
          /\ IF tPrev # r.status
             THEN tPc' = "emit" /\ tTodo' = tMon.channels
             ELSE tPc' = "idle" /\ tTodo' = 0
    /\ UNCHANGED <<emitFrame, tClock, tDeadline, tPosts, tProbes>>

\* emitWebhookBestEffort: notify.Send(ctx, ...) for the next channel.  With
\* a context that is done client.Do returns its error and sends nothing.
EmitSend ==
    /\ tPc = "emit"
    /\ tTodo > 0
    /\ IF SendCtxDone
       THEN /\ tPosts' = Append(tPosts, [issued |-> FALSE, ok |-> FALSE,
                                         at |-> tClock])
            /\ tTodo' = tTodo - 1
            /\ tPc' = "emit"
       ELSE /\ tPc' = "post"
            /\ UNCHANGED <<tPosts, tTodo>>
    /\ UNCHANGED <<emitFrame, tClock, tDeadline, tPrev, tRes, tProbes>>

\* notify.Send: client.Do returns; the error is discarded and the loop
\* goes on
EmitPostReturn ==
    /\ tPc = "post"
    /\ \E ok \in (IF SendCtxDone THEN {FALSE} ELSE BOOLEAN) :
          tPosts' = Append(tPosts, [issued |-> TRUE, ok |-> ok, at |-> tClock])
    /\ tTodo' = tTodo - 1
    /\ tPc' = "emit"
    /\ UNCHANGED <<emitFrame, tClock, tDeadline, tPrev, tRes, tProbes>>

\* emitWebhookBestEffort and checkOnce return
EmitReturn ==
    /\ tPc = "emit"
    /\ tTodo = 0
    /\ tPc' = "idle"
    /\ UNCHANGED <<emitFrame, tClock, tDeadline, tPrev, tRes, tTodo, tPosts, tProbes>>

NextEmit ==
    \/ EmitCheckOnce
    \/ EmitTick
    \/ EmitGetReturn
    \/ EmitSend
    \/ EmitPostReturn
    \/ EmitReturn

SpecEmit == InitEmit /\ [][NextEmit]_vars

(* ---------------------------- persist harness -------------------------- *)

\* The writing methods of the JSON store hold s.mu from their first
\* statement to their return, so each call is one step.

\* a variant that appends whether or not the id is stored
JSONStoreUpsertAppend(rows, m, now) ==
    Append(rows, [m EXCEPT !.createdAt = now, !.updatedAt = now])

\* JSONStore.UpsertMonitor and JSONStore.UpsertNotification: the list
\* after the loop and the append
JSONStoreUpsert(rows, m, now) == JSONStoreUpsertMonitor(rows, m, now)

\* JSONStore.DeleteMonitor and JSONStore.DeleteNotification: dst holds the
\* elements with another id, in their order
JSONStoreDelete(rows, id) == SelectSeq(rows, LAMBDA r : r.id # id)

\* persistLocked: the file after it, by whether writing and renaming failed
persistLocked(file, mons, notifs, err) ==
    IF err THEN file ELSE [mons |-> mons, notifs |-> notifs]

\* lists of stored records with pairwise distinct ids
StoredLists ==
    LET Rec(x, p) == [id |-> x, isPaused |-> p, createdAt |-> 0, updatedAt |-> 0]
        pairs == {<<x, y>> \in MonitorIds \X MonitorIds : x # y}
    IN  {<<>>} \cup {<<Rec("a", p)>> : p \in BOOLEAN} \cup
        {<<Rec(q[1], FALSE), Rec(q[2], FALSE)>> : q \in pairs}

\* the engine at rest, a JSON store as NewJSONStore loaded it
InitPersist ==
    /\ AtRest
    /\ NotifyOff
    /\ UpsertOff
    /\ CopyOff
    /\ GateOff
    /\ ContainerOff
    /\ HTTPOff
    /\ WriterOff
    /\ DiscordOff
    /\ ClientOff
    /\ EmitOff
    /\ OrderOff
    /\ RestartOff
    /\ jMons \in StoredLists
    /\ jNotifs \in {<<>>, <<[id |-> "a", isPaused |-> FALSE, createdAt |-> 0,
                             updatedAt |-> 0]>>}
    /\ jFile = [mons |-> jMons, notifs |-> jNotifs]
    /\ jNow = 1
    /\ jLast = NoStoreCall

persistFrame == <<storeVars, mapVars, lifeVars, loopVars, timeVars, obsVars,
                  probes, cstate, histVars, notifVars, upsVars, copyVars,
                  gateVars, ctrVars, httpVars, writerVars, discordVars,
                  clientVars, emitVars, orderVars, restartVars>>

\* a writing method was called at time jNow and returned
StoreCall(op, id, createdAt, mons, notifs, err) ==
    /\ jNow <= MaxStoreOps
    /\ jNow' = jNow + 1
    /\ jMons' = mons
    /\ jNotifs' = notifs
    /\ jFile' = persistLocked(jFile, mons, notifs, err)
    /\ jLast' = [op |-> op, id |-> id, err |-> err, mons |-> jMons,
                 notifs |-> jNotifs, createdAt |-> createdAt]
    /\ UNCHANGED persistFrame

StoreUpsertMonitor ==
    \E m \in StampedMonitors(jNow), err \in BOOLEAN :
       StoreCall("UpsertMonitor", m.id, m.createdAt,
                 JSONStoreUpsert(jMons, m, jNow), jNotifs, err)

StoreDeleteMonitor ==
    \E id \in MonitorIds, err \in BOOLEAN :
       StoreCall("DeleteMonitor", id, 0, JSONStoreDelete(jMons, id), jNotifs, err)

StoreUpsertNotification ==
    \E n \in StampedMonitors(jNow), err \in BOOLEAN :
       StoreCall("UpsertNotification", n.id, n.createdAt, jMons,
                 JSONStoreUpsert(jNotifs, n, jNow), err)

StoreDeleteNotification ==
    \E id \in MonitorIds, err \in BOOLEAN :
       StoreCall("DeleteNotification", id, 0, jMons,
                 JSONStoreDelete(jNotifs, id), err)

NextPersist ==
    \/ StoreUpsertMonitor
    \/ StoreDeleteMonitor
    \/ StoreUpsertNotification
    \/ StoreDeleteNotification

SpecPersist == InitPersist /\ [][NextPersist]_vars

(* ----------------------------- order harness --------------------------- *)

\* checkOnce for the container monitor "a", statement by statement: each
\* step is one call that takes e.mu, one call of the runtime or one send.
\* A reader calls StatusSnapshot and then GetHistory, each at any moment.

OrderMonitors ==
    [remediation : {[action |-> "restart", maxAttempts |-> 2, cooldownSeconds |-> 0],
                    [action |-> "start", maxAttempts |-> 1, cooldownSeconds |-> 0],
                    [action |-> "stop", maxAttempts |-> 1, cooldownSeconds |-> 0],
                    [action |-> "none", maxAttempts |-> 1, cooldownSeconds |-> 0]},
     include : BOOLEAN,
     hasRestartPolicy : BOOLEAN]

\* a variant that sends the status_changed event before the engine's maps
\* are written
SuccessorEmitFirst(pc, branch) ==
    CASE pc = "state" -> (IF branch = "error" THEN "logs"
                          ELSE IF branch = "running" THEN "emit" ELSE "policy")
      [] pc = "policy" -> "gate"
      [] pc = "gate" -> (IF branch = "act" THEN "action" ELSE "logs")
      [] pc = "action" -> (IF branch = "ok" THEN "remediated" ELSE "logs")
      [] pc = "remediated" -> "logs"
      [] pc = "logs" -> "emit"
      [] pc = "emit" -> "set"
      [] pc = "set" -> "history"
      [] pc = "history" -> "reset"
      [] pc = "reset" -> "idle"

\* the statement that follows pc in checkContainer, tryRemediate and
\* checkOnce, by the branch taken at pc
Successor(pc, branch) ==
    CASE pc = "state" -> (IF branch = "error" THEN "logs"
                          ELSE IF branch = "running" THEN "set" ELSE "policy")
      [] pc = "policy" -> "gate"
      [] pc = "gate" -> (IF branch = "act" THEN "action" ELSE "logs")
      [] pc = "action" -> (IF branch = "ok" THEN "remediated" ELSE "logs")
      [] pc = "remediated" -> "logs"
      [] pc = "logs" -> "set"
      [] pc = "set" -> "history"
      [] pc = "history" -> "reset"
      [] pc = "reset" -> "emit"
      [] pc = "emit" -> "idle"

\* the engine at rest, a container monitor "a"
InitOrder ==
    /\ AtRest
    /\ NotifyOff
    /\ UpsertOff
    /\ CopyOff
    /\ GateOff
    /\ ContainerOff
    /\ HTTPOff
    /\ WriterOff
    /\ DiscordOff
    /\ ClientOff
    /\ EmitOff
    /\ PersistOff
    /\ RestartOff
    /\ oPc = "idle"
    /\ oMon \in OrderMonitors
    /\ oNow = 0
    /\ oStatus = "none"
    /\ oPrev = "none"
    /\ oLog = <<>>
    /\ oProbes = 0
    /\ oRead = NoRead

orderFrame == <<storeVars, lifeVars, loopVars, timeVars, obsVars, probes,
                cstate, histVars, notifVars, upsVars, copyVars, gateVars,
                ctrVars, httpVars, writerVars, discordVars, clientVars,
                emitVars, persistVars, restartVars, oMon>>

\* the statement at pc is done with this effect and this branch
OrderStep(pc, branch, effects) ==
    /\ oPc = pc
    /\ oPc' = Successor(pc, branch)
    /\ oLog' = oLog \o effects
    /\ UNCHANGED <<orderFrame, oNow, oProbes, oRead>>

\* the scheduler calls checkOnce(now, m) on a later tick; checkContainer
\* calls Docker.ContainerState
OrderCheckOnce ==
    /\ oPc = "idle"
    /\ oProbes < MaxOrderProbes
    /\ oProbes' = oProbes + 1
    /\ oNow' \in {oNow + 1, oNow + 5}
    /\ oPc' = "state"
    /\ oLog' = <<>>
    /\ oStatus' = "none"
    /\ oPrev' = "none"
    /\ UNCHANGED <<orderFrame, mapVars, oRead>>

\* checkContainer: ContainerState returns an error, "running" or another
\* state
OrderState ==
    \E branch \in {"error", "running", "exited"} :
       /\ OrderStep("state", branch, <<"ContainerState">>)
       /\ oStatus' = IF branch = "running" THEN StatusUp ELSE StatusDown
       /\ UNCHANGED <<mapVars, oPrev>>

\* checkContainer: e.applyRestartPolicy(ctx, m)
OrderPolicy ==
    /\ OrderStep("policy", "",
                 IF oMon.hasRestartPolicy THEN <<"UpdateRestartPolicy">> ELSE <<>>)
    /\ UNCHANGED <<mapVars, oStatus, oPrev>>

\* tryRemediate, up to e.mu.Unlock(): the early returns, or the update of
\* attempts and remediateAt
OrderGate ==
    LET p == oMon.remediation IN
    IF RemediationEnabled(p) /\ GatePass("a", oNow, p)
    THEN /\ OrderStep("gate",
                      IF p.action \in {"start", "restart"} THEN "act" ELSE "return",
                      <<"attempts">>)
         /\ attempts' = [attempts EXCEPT !["a"] = @ + 1]
         /\ remediateAt' = [remediateAt EXCEPT !["a"] = NextRemediateAt(oNow, p)]
         /\ UNCHANGED <<lastStatus, lastCheck, history, oStatus, oPrev>>
    ELSE /\ OrderStep("gate", "return", <<>>)
         /\ UNCHANGED <<mapVars, oStatus, oPrev>>

\* tryRemediate: Docker.Start or Docker.Restart returns
OrderAction ==
    \E branch \in {"ok", "failed"} :
       /\ OrderStep("action", branch, <<"action">>)
       /\ UNCHANGED <<mapVars, oStatus, oPrev>>

\* tryRemediate: emitWebhookBestEffort sends the remediated event
OrderRemediated ==
    /\ OrderStep("remediated", "", <<"remediated">>)
    /\ UNCHANGED <<mapVars, oStatus, oPrev>>

\* checkContainer: e.tryAttachLogs(ctx, m, now)
OrderLogs ==
    /\ OrderStep("logs", "", IF oMon.include THEN <<"logs">> ELSE <<>>)
    /\ UNCHANGED <<mapVars, oStatus, oPrev>>

\* checkOnce: prev := e.getLastStatus(m.ID); e.setLastStatus(...)
OrderSetLastStatus ==
    /\ OrderStep("set", "", <<"lastStatus">>)
    /\ oPrev' = getLastStatus("a")
    /\ lastStatus' = [lastStatus EXCEPT !["a"] = oStatus]
    /\ lastCheck' = [lastCheck EXCEPT !["a"] = oNow]
    /\ UNCHANGED <<history, attempts, remediateAt, oStatus>>

\* checkOnce: e.appendHistory(...)
OrderAppendHistory ==
    /\ OrderStep("history", "", <<"history">>)
    /\ history' = [history EXCEPT !["a"] =
                      appendHistory(@, [status |-> oStatus, checkedAt |-> oNow])]
    /\ UNCHANGED <<lastStatus, lastCheck, attempts, remediateAt, oStatus, oPrev>>

\* checkOnce: e.resetAttempts(m.ID) on a recovery
OrderReset ==
    /\ IF ShouldReset(oStatus, oPrev)
       THEN /\ OrderStep("reset", "", <<"reset">>)
            /\ attempts' = [attempts EXCEPT !["a"] = 0]
       ELSE /\ OrderStep("reset", "", <<>>)
            /\ UNCHANGED attempts
    /\ UNCHANGED <<lastStatus, lastCheck, history, remediateAt, oStatus, oPrev>>

\* checkOnce: e.emitNotification(...) on a change of status
OrderEmit ==
    /\ OrderStep("emit", "",
                 IF ShouldEmit(oStatus, oPrev) THEN <<"status_changed">> ELSE <<>>)
    /\ UNCHANGED <<mapVars, oStatus, oPrev>>

\* a reader calls StatusSnapshot
OrderStatusSnapshot ==
    /\ oRead.pc = "none"
    /\ oRead' = [oRead EXCEPT !.pc = "snapshot",
                              !.status = getLastStatus("a"),
                              !.lastCheck = lastCheck["a"]]
    /\ UNCHANGED <<orderFrame, mapVars, oPc, oNow, oStatus, oPrev, oLog, oProbes>>

\* the reader then calls GetHistory("a")
OrderGetHistory ==
    /\ oRead.pc = "snapshot"
    /\ oRead' = [oRead EXCEPT
                   !.pc = "both",
                   !.headStatus = IF history["a"] = <<>> THEN ""
                                  ELSE history["a"][1].status,
                   !.headAt = IF history["a"] = <<>> THEN 0
                              ELSE history["a"][1].checkedAt]
    /\ UNCHANGED <<orderFrame, mapVars, oPc, oNow, oStatus, oPrev, oLog, oProbes>>

NextOrder ==
    \/ OrderCheckOnce
    \/ OrderState
    \/ OrderPolicy
    \/ OrderGate
    \/ OrderAction
    \/ OrderRemediated
    \/ OrderLogs
    \/ OrderSetLastStatus
    \/ OrderAppendHistory
    \/ OrderReset
    \/ OrderEmit
    \/ OrderStatusSnapshot
    \/ OrderGetHistory

SpecOrder == InitOrder /\ [][NextOrder]_vars

(* ------------------------------- restarting the engine ------------------ *)
(* NewEngine makes the root context once; main calls Start and Stop, one   *)
(* call at a time, in any order.  Each call of Start runs its own          *)
(* scheduler goroutine with its own ticker and its own nextRun map.  A     *)
(* second passes only while every scheduler is blocked in its select, and  *)
(* a dispatched probe completes within the tick that dispatched it.        *)

\* mutant: Start makes a new root context
CtxAtStartFresh(ctxCancelled) == FALSE
\* Engine.Start: e.ctx stays the context NewEngine made
CtxAtStart(ctxCancelled) == ctxCancelled

\* loop: time.NewTicker, the channel is empty
NewTicker == 0

\* Engine.Stop: e.wg.Wait() returns when the counter is zero
RestartWaitDone == xWg = 0

\* the scheduler goroutine of call i is in its select
Running(i) == xLoopPc[i] = "select"

\* loop: a case of the select of call i is ready
SelectReady(i) == xCancelled \/ xTick[i] # 0

\* loop: nr, ok := nextRun[m.ID]; !ok || !now.Before(nr)
RestartDue(i, id) == xNextRun[i][id] = 0 \/ xSeconds >= xNextRun[i][id]

\* the monitors of the store that the tick of call i dispatches
RestartDispatched(i) ==
    {arr[k].id : k \in {j \in 1..slen : ~arr[j].isPaused /\ RestartDue(i, arr[j].id)}}

\* the stored monitor with this id
RestartMonitor(id) == arr[CHOOSE k \in 1..slen : arr[k].id = id]

InitRestart ==
    /\ AtRest
    /\ NotifyOff
    /\ UpsertOff
    /\ CopyOff
    /\ GateOff
    /\ ContainerOff
    /\ HTTPOff
    /\ WriterOff
    /\ DiscordOff
    /\ ClientOff
    /\ EmitOff
    /\ PersistOff
    /\ OrderOff
    /\ xCancelled = FALSE
    /\ xWg = 0
    /\ xStopPc = "none"
    /\ xStops = 0
    /\ xLoopPc = [i \in Starts |-> "none"]
    /\ xTick = [i \in Starts |-> NewTicker]
    /\ xNextRun = [i \in Starts |-> [id \in MonitorIds |-> 0]]
    /\ xHandled = [i \in Starts |-> 0]
    /\ xLate = [i \in Starts |-> FALSE]
    /\ xSeconds = 0

restartFrame == <<storeVars, lifeVars, loopVars, timeVars, obsVars, probes,
                  cstate, histVars, notifVars, upsVars, copyVars, gateVars,
                  ctrVars, httpVars, writerVars, discordVars, clientVars,
                  emitVars, persistVars, orderVars>>

\* Engine.Start: wg.Add(1), go loop(); the loop makes its ticker and its
\* nextRun map and reaches its select
RestartStart(i) ==
    /\ xLoopPc[i] = "none"
    /\ \A j \in Starts : j < i => xLoopPc[j] # "none"
    /\ xStopPc # "waiting"
    /\ xCancelled' = CtxAtStart(xCancelled)
    /\ xWg' = xWg + 1
    /\ xLoopPc' = [xLoopPc EXCEPT ![i] = "select"]
    /\ xTick' = [xTick EXCEPT ![i] = NewTicker]
    /\ xNextRun' = [xNextRun EXCEPT ![i] = [id \in MonitorIds |-> 0]]
    /\ xLate' = [xLate EXCEPT ![i] = xStops > 0]
    /\ UNCHANGED <<restartFrame, mapVars, xStopPc, xStops, xHandled, xSeconds>>

\* Engine.Stop: e.cancel(), then e.wg.Wait() begins
RestartStop ==
    /\ xStops < MaxStops
    /\ xStopPc # "waiting"
    /\ xCancelled' = TRUE
    /\ xStopPc' = "waiting"
    /\ xStops' = xStops + 1
    /\ UNCHANGED <<restartFrame, mapVars, xWg, xLoopPc, xTick, xNextRun, xHandled, xLate,
                   xSeconds>>

\* Engine.Stop: e.wg.Wait() returns, Stop returns
RestartStopReturn ==
    /\ xStopPc = "waiting"
    /\ RestartWaitDone
    /\ xStopPc' = "returned"
    /\ UNCHANGED <<restartFrame, mapVars, xCancelled, xWg, xStops, xLoopPc, xTick, xNextRun,
                   xHandled, xLate, xSeconds>>

\* loop: case <-e.ctx.Done(): return; the deferred ticker.Stop() and
\* wg.Done() run
RestartLoopDone(i) ==
    /\ Running(i)
    /\ xCancelled
    /\ xLoopPc' = [xLoopPc EXCEPT ![i] = "exited"]
    /\ xTick' = [xTick EXCEPT ![i] = 0]
    /\ xWg' = xWg - 1
    /\ UNCHANGED <<restartFrame, mapVars, xCancelled, xStopPc, xStops, xNextRun, xHandled,
                   xLate, xSeconds>>

\* loop: case now := <-ticker.C: every due monitor that is not paused gets
\* its nextRun set and is probed; checkOnce sets lastStatus and lastCheck
\* and prepends the history entry
RestartLoopTick(i) ==
    /\ Running(i)
    /\ xTick[i] # 0
    /\ xTick' = [xTick EXCEPT ![i] = 0]
    /\ xHandled' = [xHandled EXCEPT ![i] = @ + 1]
    /\ xNextRun' = [xNextRun EXCEPT ![i] =
                       [id \in MonitorIds |->
                           IF id \in RestartDispatched(i)
                           THEN xSeconds + Interval(RestartMonitor(id))
                           ELSE @[id]]]
    /\ \E status \in {StatusUp, StatusDown} :
        /\ lastStatus' = [id \in MonitorIds |->
                             IF id \in RestartDispatched(i) THEN status
                             ELSE lastStatus[id]]
        /\ lastCheck' = [id \in MonitorIds |->
                            IF id \in RestartDispatched(i) THEN xSeconds
                            ELSE lastCheck[id]]
        /\ history' = [id \in MonitorIds |->
                          IF id \in RestartDispatched(i)
                          THEN appendHistory(history[id],
                                             [status |-> status, checkedAt |-> xSeconds])
                          ELSE history[id]]
    /\ UNCHANGED <<restartFrame, attempts, remediateAt, xCancelled, xWg, xStopPc, xStops,
                   xLoopPc, xLate, xSeconds>>

\* a second passes while every scheduler is blocked: each running ticker
\* delivers its tick
RestartSecond ==
    /\ xSeconds < MaxSeconds
    /\ \E i \in Starts : Running(i)
    /\ \A i \in Starts : Running(i) => ~SelectReady(i)
    /\ xTick' = [i \in Starts |-> IF Running(i) THEN 1 ELSE xTick[i]]
    /\ xSeconds' = xSeconds + 1
    /\ UNCHANGED <<restartFrame, mapVars, xCancelled, xWg, xStopPc, xStops, xLoopPc,
                   xNextRun, xHandled, xLate>>

NextRestart ==
    \/ \E i \in Starts : RestartStart(i)
    \/ RestartStop
    \/ RestartStopReturn
    \/ \E i \in Starts : RestartLoopDone(i)
    \/ \E i \in Starts : RestartLoopTick(i)
    \/ RestartSecond

SpecRestart == InitRestart /\ [][NextRestart]_vars

(* ------------------------------- claims ------------------------------- *)

ProbesOf(id) == {p \in probes : p.id = id}

\* C1: with the scheduler started once, no monitor id ever has more than one
\* probe (checkOnce) in flight
C1_OneProbePerMonitor ==
    \A id \in MonitorIds : Cardinality(ProbesOf(id)) <= 1

\* a probe is still running when its monitor is due again and a tick waits
C1_Witness ==
    \E p \in probes : nextRun[p.id] # 0 /\ clock >= nextRun[p.id] /\ tickChan # 0

\* the one remediation policy a monitor has ever been stored with
FixedPolicy(id, pol) == cfgHist[id] = {pol} /\ RemediationEnabled(pol)

\* C2: for a monitor whose remediation config stays fixed and enabled, at
\* most maxAttempts remediation actions are performed since the last probe
\* that reported up
C2_ActionsBetweenUps ==
    \A id \in MonitorIds : \A pol \in RemPolicies :
        FixedPolicy(id, pol) => remSinceUp[id] <= pol.maxAttempts

\* the cap is reached and a later failing probe performs no further action
C2_Witness ==
    \E id \in MonitorIds : \E pol \in RemPolicies :
        /\ FixedPolicy(id, pol)
        /\ remSinceUp[id] = pol.maxAttempts
        /\ lastProbe[id].status = StatusDown
        /\ lastProbe[id].at > lastAct[id].at

\* C3: an action at tick time t happens only if remediateAt is unset or
\* t >= remediateAt, it sets remediateAt to t + max(5, cooldownSeconds), and
\* it is at least max(5, cooldownSeconds of the action before) after the
\* action before
C3_Cooldown ==
    [][\A id \in MonitorIds :
          lastAct'[id] # lastAct[id] =>
             LET t == lastAct'[id].at IN
             /\ remediateAt[id] = 0 \/ t >= remediateAt[id]
             /\ remediateAt'[id] = t + maxInt(5, lastAct'[id].cooldownSeconds)
             /\ lastAct[id] # NoAct =>
                   t - lastAct[id].at >= maxInt(5, lastAct[id].cooldownSeconds)]_vars

\* a second action of the same monitor has been performed
C3_Witness ==
    \E id \in MonitorIds : lastAct[id].at > 1 /\ attempts[id] = 2

\* stored container monitors with remediation enabled
StoredEnabled ==
    {i \in 1..slen : arr[i].type = "container" /\ RemediationEnabled(arr[i].remediation)}

\* C4 as stated: attempts never exceeds the maxAttempts now stored
C4_WithinStoredMax ==
    \A i \in StoredEnabled : attempts[arr[i].id] <= arr[i].remediation.maxAttempts

\* C4 amended: attempts never exceeds the maxAttempts of the monitor value
\* that gated the latest remediation action, nor the stored maxAttempts of
\* a monitor whose remediation config was never changed
C4_WithinGatingMax ==
    /\ \A id \in MonitorIds : attempts[id] <= lastAct[id].maxAttempts
    /\ \A i \in StoredEnabled :
          cfgHist[arr[i].id] = {arr[i].remediation} =>
             attempts[arr[i].id] <= arr[i].remediation.maxAttempts

\* the cap is reached
C4_Witness ==
    \E id \in MonitorIds :
        attempts[id] > 0 /\ attempts[id] = lastAct[id].maxAttempts

\* the status a completed probe is compared with, when no paused tick is
\* taken into account: that of the completed probe before it
PrevProbeStatus(id) ==
    IF lastProbe[id].prevProbe = "none" THEN StatusUnknown ELSE lastProbe[id].prevProbe

\* C5 as stated: a completed probe emits once iff its status differs from
\* that of the completed probe before it
C5_EmitPerProbeChange ==
    \A id \in MonitorIds :
        lastProbe[id].at # 0 =>
           lastProbe[id].emitted =
              IF lastProbe[id].status # PrevProbeStatus(id) THEN 1 ELSE 0

\* C5 amended: a completed probe emits once iff its status differs from
\* paused, when the monitor was handled as paused on a tick since its
\* completed probe before, and else from the status of that probe
C5_EmitPerTransition ==
    \A id \in MonitorIds :
        lastProbe[id].at # 0 =>
           lastProbe[id].emitted =
              IF lastProbe[id].status #
                    (IF lastProbe[id].pausedSince THEN StatusPaused
                     ELSE PrevProbeStatus(id))
              THEN 1 ELSE 0

\* a probe after a paused tick repeats the status of the probe before the
\* pause and emits
C5_Witness ==
    \E id \in MonitorIds :
        /\ lastProbe[id].at # 0
        /\ lastProbe[id].pausedSince
        /\ lastProbe[id].prevProbe = lastProbe[id].status
        /\ lastProbe[id].emitted = 1

\* C6: a monitor stored as paused all through a tick gets no probe on that
\* tick and, when the tick is done, has lastStatus paused and lastCheck
\* the tick time
C6_PausedTick ==
    [][/\ \A p \in probes' \ probes : p.phase = "check" => p.id \notin pausedAll
       /\ (loopPc \in {"iter", "wait"} /\ loopPc' = "select") =>
             \A id \in pausedAll' :
                lastStatus'[id] = StatusPaused /\ lastCheck'[id] = loopNow]_vars

engineObs == <<lastStatus, lastCheck, history, attempts, remediateAt, probes,
               loopPc, lastAct, lastRemEvt, lastProbe>>

\* C7: once Stop has returned the scheduler has exited, no probe is in
\* flight, and no probe, map update, remediation or notification follows
C7_StopQuiesces ==
    /\ [](stopPc = "returned" => loopPc = "exited" /\ probes = {})
    /\ [][stopPc = "returned" => UNCHANGED engineObs]_vars

\* Stop has returned after a probe that ended with the context cancelled
C7_Witness ==
    stopPc = "returned" /\ \E id \in MonitorIds : lastProbe[id].cancelled

\* C8: Stop terminates
C8_StopTerminates == (stopPc = "waiting") ~> (stopPc = "returned")

\* Stop waits while a probe is in flight
C8_Witness == stopPc = "waiting" /\ probes # {}

\* C9: no tick is dropped or kept waiting because a probe is running
C9_NoSkippedBeat ==
    /\ ~dropped
    /\ ~(loopPc = "wait" /\ tickChan # 0)

Reverse(s) == [i \in 1..Len(s) |-> s[Len(s) + 1 - i]]

\* the n most recently appended entries, newest first
MostRecent(s, n) ==
    LET k == IF Len(s) < n THEN Len(s) ELSE n
    IN  Reverse(SubSeq(s, Len(s) - k + 1, Len(s)))

FedHistory == IF histTarget = "engine" THEN engHist ELSE storeHist

\* C10: after any sequence of appends a history is the most recent
\* min(n, 50) appended entries, newest first: at most 50 long, checkedAt
\* weakly decreasing, and after 60 appends exactly the last 50
C10_HistoryMostRecent ==
    /\ FedHistory = MostRecent(fed, 50)
    /\ Len(FedHistory) <= 50
    /\ \A i \in 1..(Len(FedHistory) - 1) :
          FedHistory[i].checkedAt >= FedHistory[i + 1].checkedAt
    /\ Len(fed) = 60 =>
          /\ Len(FedHistory) = 50
          /\ \A i \in 1..50 : FedHistory[i] = fed[61 - i]

\* 60 entries appended to the engine's list, the dropped ones older than
\* the newest
C10_Witness ==
    /\ histTarget = "engine"
    /\ Len(fed) = 60
    /\ fed[1].checkedAt < fed[60].checkedAt

\* the monitor has completed at least one probe
Probed(id) == lastProbe[id].at # 0

\* C11 as stated: lastStatus of a monitor that has completed a probe is the
\* status of its most recently completed probe, which is history[id][0]
C11_LastStatusIsLastProbe ==
    \A id \in MonitorIds :
        Probed(id) => /\ history[id] # <<>>
                      /\ lastStatus[id] = history[id][1].status

\* C11 amended: history[id][0] is the most recently completed probe, and
\* lastStatus is its status unless the scheduler has handled the monitor as
\* paused on a tick since, and then it is paused
C11_LastStatusOrPaused ==
    \A id \in MonitorIds :
        Probed(id) =>
           /\ history[id] # <<>>
           /\ history[id][1] = [status |-> lastProbe[id].status,
                                checkedAt |-> lastProbe[id].at]
           /\ lastStatus[id] = IF pausedSince[id] THEN StatusPaused
                               ELSE history[id][1].status

\* a second probe has completed with a status other than the first one's
C11_Witness ==
    \E id \in MonitorIds :
        /\ Probed(id)
        /\ ~pausedSince[id]
        /\ Len(history[id]) >= 2
        /\ history[id][1].status # history[id][2].status

\* the scheduler handles the element at idx of the State it fetched
HandlesElement == loopPc = "iter" /\ <<loopPc, idx>>' # <<loopPc, idx>>

\* C12: a non-paused monitor is dispatched on a tick at time now iff nextRun
\* is unset or now >= nextRun; a dispatch sets nextRun to
\* now + max(5, intervalSeconds) and is at least max(5, intervalSeconds of
\* the dispatch before) after the dispatch before of the same monitor
C12_DispatchRule ==
    [][HandlesElement =>
          LET m == SnapElem(idx)
              dispatched == nextRun'[m.id] # nextRun[m.id]
          IN  ~m.isPaused =>
                /\ dispatched <=> (nextRun[m.id] = 0 \/ loopNow >= nextRun[m.id])
                /\ dispatched =>
                      /\ nextRun'[m.id] =
                            loopNow + (IF m.intervalSeconds > 5
                                       THEN m.intervalSeconds ELSE 5)
                      /\ \E p \in probes' \ probes : p.id = m.id /\ p.now = loopNow
                      /\ Probed(m.id) =>
                            loopNow - lastProbe[m.id].at >=
                               (IF lastProbe[m.id].intervalSeconds > 5
                                THEN lastProbe[m.id].intervalSeconds ELSE 5)
                /\ ~dispatched => probes' = probes]_vars

\* a monitor with an interval below 5 is dispatched for the second time,
\* 5 seconds after the first
C12_Witness ==
    \E p \in probes :
        /\ Probed(p.id)
        /\ p.m.intervalSeconds < 5
        /\ p.now = lastProbe[p.id].at + 5

\* a probe of the monitor completes: checkOnce applies the transition rules
Completes(id) == history'[id] # history[id]

\* C13: a probe that completes with up while lastStatus was not up leaves
\* attempts 0; a probe that completes with another status, or with up after
\* up, leaves attempts as it was
C13_ResetOnRecovery ==
    [][\A id \in MonitorIds :
          Completes(id) =>
             IF lastStatus'[id] = StatusUp /\ getLastStatus(id) # StatusUp
             THEN attempts'[id] = 0
             ELSE attempts'[id] = attempts[id]]_vars

\* a probe reported up after a pause that followed a remediation action,
\* and attempts is 0
C13_Witness ==
    \E id \in MonitorIds :
        /\ lastAct[id].at # 0
        /\ lastProbe[id].status = StatusUp
        /\ lastProbe[id].prev = StatusPaused
        /\ lastProbe[id].at > lastAct[id].at
        /\ attempts[id] = 0

\* the target C14 gives element x: an id match anywhere in the store, else
\* a name match, else the legacy webhook of that name, else nothing
ResolvedAsClaimed(x, e) ==
    LET byId == {j \in 1..Len(nStore) : nStore[j].id = x}
        byName == {j \in 1..Len(nStore) : nStore[j].name = x}
    IN  IF byId # {}
        THEN e.via = "id" /\ e.index \in byId /\ \A j \in byId : e.index <= j
        ELSE IF byName # {}
        THEN e.via = "name" /\ e.index \in byName /\ \A j \in byName : e.index <= j
        ELSE IF \E w \in nLegacy : w.name = x
        THEN e.via = "legacy" /\ e.name = x
        ELSE e.via = "none" /\ ~e.failed

\* C14: each element of notifyWebhookIds is sent to exactly one target,
\* resolved in the order id match, name match, legacy webhook, nothing
C14_ResolutionOrder ==
    /\ Len(nLog) <= Len(nIds)
    /\ \A i \in 1..Len(nLog) : ResolvedAsClaimed(nIds[i], nLog[i])

\* an element matched by id the second notification although the first
\* notification has it as its name
C14_Witness ==
    \E i \in 1..Len(nLog) :
        /\ nLog[i].via = "id"
        /\ nLog[i].index = 2
        /\ nStore[1].name = nIds[i]

\* C15: a failed delivery interrupts nothing: when checkOnce has returned
\* from an emission every element of notifyWebhookIds was handled, and
\* the probe's lastStatus, lastCheck and history entry are in place
C15_FailureInterruptsNothing ==
    /\ (nPc = "returned" /\ lastProbe["a"].emitted = 1) => Len(nLog) = Len(nIds)
    /\ nPc \in {"emit", "returned"} =>
          /\ lastStatus["a"] = lastProbe["a"].status
          /\ lastCheck["a"] = lastProbe["a"].at
          /\ history["a"][1] = [status |-> lastProbe["a"].status,
                                checkedAt |-> lastProbe["a"].at]

\* the first delivery of the second probe's event failed, the second
\* delivery was attempted, and checkOnce has returned
C15_Witness ==
    /\ nPc = "returned"
    /\ nProbes = 2
    /\ Len(nLog) = 2
    /\ nLog[1].failed
    /\ nLog[2].via # "none"

\* C16: Send fails iff no response was obtained, or the status is >= 400,
\* or the channel is dingtalk and the body is JSON with errcode # 0
C16_SendFailure ==
    nLast # NoSend =>
       /\ nLast.failed <=>
             \/ nLast.resp.kind = "error"
             \/ nLast.resp.status >= 400
             \/ /\ nLast.type = "dingtalk"
                /\ nLast.resp.body.json
                /\ nLast.resp.body.errcode # 0
       /\ (nLast.type # "dingtalk" /\ nLast.resp.kind = "response"
             /\ nLast.resp.status < 400) => ~nLast.failed

\* a dingtalk response with status 200 and errcode 310000 is a failure
C16_Witness ==
    /\ nLast.type = "dingtalk"
    /\ nLast.resp.kind = "response"
    /\ nLast.resp.status = 200
    /\ nLast.resp.body.errcode = 310000
    /\ nLast.failed

\* C17: after UpsertMonitor(m), the monitor with m's id in GetState equals
\* m in every field except updatedAt, for a new and for an existing id
C17_UpsertReadBack ==
    uLast # NoUpsert =>
       /\ uLast.got.id = uLast.m.id
       /\ uLast.got.isPaused = uLast.m.isPaused
       /\ uLast.got.createdAt = uLast.m.createdAt

\* the indexes of the fetched State the range loop has still to read
ToRead == (IF loopPc = "iter" THEN idx ELSE idx + 1)..snapLen

\* C18: while the scheduler iterates the State it fetched, no write to the
\* store changes a monitor it has still to read
C18_SnapshotIsolated ==
    [][(MidTick /\ loopNow' = loopNow /\ snapLen' = snapLen
          /\ <<loopPc, idx>>' = <<loopPc, idx>>) =>
          \A i \in ToRead : SnapElem(i)' = SnapElem(i)]_vars

\* C19: what GetHistory and StatusSnapshot returned is the caller's own:
\* a write by the caller leaves the engine's maps alone, a step of the
\* engine leaves the returned values alone, and GetHistory never returns
\* null
C19_IndependentCopies ==
    /\ [](gHist.taken => ~gHist.null)
    /\ [][(gHist' # gHist \/ gSnap' # gSnap) => UNCHANGED mapVars]_vars
    /\ [][mapVars' # mapVars => UNCHANGED <<gHist, gSnap>>]_vars

\* the caller has overwritten an entry of a returned history and of a
\* returned snapshot, the engine has completed a probe since and holds
\* none of the caller's writes
C19_Witness ==
    /\ gHist.mutated
    /\ gSnap.mutated
    /\ Len(history[gHist.id]) > Len(gHist.data)
    /\ \A id \in MonitorIds :
          /\ lastStatus[id] # "mutated"
          /\ \A i \in 1..Len(history[id]) : history[id][i].status # "mutated"

\* the monitor is not in the store (both monitors are stored at first)
Deleted(id) == IndexOfId(id) = 0

\* the engine's entries of the monitor
EntriesOf(id) ==
    <<lastStatus[id], lastCheck[id], history[id], attempts[id], remediateAt[id]>>

\* C20: on a tick whose state fetch happened after the deletion of a
\* monitor no probe of it is dispatched, its next run is not rescheduled
\* and its entries in the engine maps, which may stay, are not updated
C20_DeletedNotProbedNextTick ==
    [][\A id \in goneAll :
          /\ EntriesOf(id)' = EntriesOf(id)
          /\ nextRun'[id] = nextRun[id]
          /\ \A p \in probes' : p.id # id]_vars

\* a tick fetched after the deletion of a monitor that was probed before
\* is done, the monitor's entries have stayed, and the monitor was due
C20_Witness ==
    \E id \in goneAll :
        /\ Deleted(id)
        /\ Probed(id)
        /\ lastStatus[id] # Absent
        /\ loopPc = "select"
        /\ loopNow >= nextRun[id]
        /\ loopNow > lastProbe[id].at

\* C21: in tryRemediate the gate check and the update of attempts and
\* remediateAt happen in one critical section of e.mu that no other
\* goroutine shares, so no two invocations pass the gate on the same
\* attempts count, and the lock is not held during the Start/Restart call
\* nor while the remediated event is sent
C21_GateAtomic ==
    /\ \A t \in Goroutines :
          /\ rPc[t] \in {"cooldown", "cap", "update"} => rMu = t
          /\ rPc[t] \in {"io", "attempt", "send"} => rMu # t
    /\ \A i, j \in 1..Len(rPasses) : i # j => rPasses[i] # rPasses[j]
    /\ Len(rPasses) = attempts["a"]
    /\ attempts["a"] <= rPol.maxAttempts

\* one goroutine is in the runtime call after it passed the gate while
\* the other, called for a tick past the cooldown, holds the lock and
\* is at the gate with an attempt left
C21_Witness ==
    \E t, u \in Goroutines :
        /\ rPc[t] = "io"
        /\ rPc[u] = "cap"
        /\ rMu = u
        /\ attempts["a"] = 1
        /\ attempts["a"] < rPol.maxAttempts

\* C22: when the runtime call of a remediation action returns, attempts
\* and remediateAt keep the values set before the call, whether it
\* failed or not; the remediated event is sent iff the call succeeded
\* (the container is then running), and its attempt is attempts[id] after
\* the increment
C22_FailedActionCounts ==
    [][\A p \in probes :
          (p.phase = "action" /\ p \notin probes') =>
             /\ cstate # "running"
             /\ attempts[p.id] = lastAct[p.id].attempt
             /\ attempts'[p.id] = attempts[p.id]
             /\ remediateAt'[p.id] = remediateAt[p.id]
             /\ remediateAt[p.id] =
                   p.now + maxInt(5, lastAct[p.id].cooldownSeconds)
             /\ (cstate' = "running") <=> (lastRemEvt'[p.id] # lastRemEvt[p.id])
             /\ cstate' = "running" =>
                   lastRemEvt'[p.id] =
                      [at |-> p.now, attempt |-> lastAct[p.id].attempt]]_vars

\* the second action of a monitor has failed: no event of it, the count
\* is 2 and the cooldown runs from it
C22_Witness ==
    \E id \in MonitorIds :
        /\ lastAct[id].attempt = 2
        /\ lastProbe[id].at = lastAct[id].at
        /\ lastRemEvt[id].at # lastAct[id].at
        /\ attempts[id] = 2
        /\ remediateAt[id] = lastAct[id].at + 5
        /\ cstate # "running"

\* the runtime calls among the calls of the last checkContainer
RuntimeCalls(ops) == SelectSeq(kRes.calls, LAMBDA c : c.op \in ops)

\* C23: when the remediation action is not start or restart, or
\* maxAttempts <= 0, a call of checkContainer (and so tryRemediate) leaves
\* attempts and remediateAt unchanged, calls neither Start nor Restart
\* and sends no event
C23_DisabledIsNoOp ==
    [][(kProbes' # kProbes
        /\ (kMon.remediation.action \notin {"start", "restart"}
            \/ kMon.remediation.maxAttempts <= 0)) =>
          /\ attempts'["a"] = attempts["a"]
          /\ remediateAt'["a"] = remediateAt["a"]
          /\ SelectSeq(kRes'.calls, LAMBDA c : c.op \in {"Start", "Restart"}) = <<>>
          /\ kRes'.events = <<>>]_vars

\* the monitor of the container harness names a container
HasContainerId == kMon.hasContainer /\ kMon.containerId # ""

\* C24: checkContainer returns up iff ContainerState gave "running"
\* without error; on any other state it returns down with the state as
\* message after applyRestartPolicy and then tryRemediate; on an error or
\* a missing container id it returns down and tryRemediate is not called
C24_ContainerProbe ==
    kProbes > 0 =>
       /\ kRes.status \in {StatusUp, StatusDown}
       /\ kRes.status = StatusUp <=>
             (HasContainerId /\ ~kOut.stateErr /\ kOut.state = "running")
       /\ (HasContainerId /\ ~kOut.stateErr /\ kOut.state # "running") =>
             /\ kRes.message = kOut.state
             /\ Len(kRes.calls) >= 3
             /\ kRes.calls[1].op = "ContainerState"
             /\ RuntimeCalls({"applyRestartPolicy", "tryRemediate"}) =
                   <<Call("applyRestartPolicy", "", 0, <<>>),
                     Call("tryRemediate", "", 0, <<>>)>>
       /\ (~HasContainerId \/ kOut.stateErr \/ kOut.state = "running") =>
             /\ RuntimeCalls({"applyRestartPolicy", "tryRemediate", "Start",
                              "Restart", "UpdateRestartPolicy"}) = <<>>
             /\ kRes.events = <<>>

\* the runtime gave "Running": down with that message, the restart policy
\* reconciled and then the container restarted
C24_Witness ==
    /\ kProbes > 0
    /\ kOut.state = "Running"
    /\ kRes.status = StatusDown
    /\ kRes.message = "Running"
    /\ RuntimeCalls({"UpdateRestartPolicy", "Restart"}) =
          <<Call("UpdateRestartPolicy", "always", 3, <<>>),
            Call("Restart", "c1", 0, <<>>)>>

\* the monitor of the container harness declares a restart policy with a
\* name
DeclaresPolicy ==
    kMon.hasContainer /\ kMon.hasRestartPolicy /\ kMon.restartPolicy.name # ""

\* the one UpdateRestartPolicy call the declared policy asks for
PolicyCall ==
    <<Call("UpdateRestartPolicy", kMon.restartPolicy.name,
           kMon.restartPolicy.maximumRetryCount, <<>>)>>

\* C25 as stated: with a declared restart policy, every container probe
\* that ends down, whatever the cause, has issued one UpdateRestartPolicy
\* call with its name and maximumRetryCount
C25_PolicyOnEveryFailure ==
    (kProbes > 0 /\ DeclaresPolicy /\ kRes.status = StatusDown) =>
       RuntimeCalls({"UpdateRestartPolicy"}) = PolicyCall

\* C25 amended: with a declared restart policy, every container probe to
\* which the runtime reports a state other than running has issued one
\* UpdateRestartPolicy call with its name and maximumRetryCount, a probe
\* that fails on a runtime error or a missing container id has issued
\* none, and an error of the call changes nothing of what the probe
\* does, returns and leaves in the engine
C25_PolicyOnOtherState ==
    /\ (kProbes > 0 /\ DeclaresPolicy) =>
          RuntimeCalls({"UpdateRestartPolicy"}) =
             IF HasContainerId /\ ~kOut.stateErr /\ kOut.state # "running"
             THEN PolicyCall ELSE <<>>
    /\ \A o \in Outcomes : \A now \in {kNow + 1, kNow + 5} :
          checkContainer(kMon, now, [o EXCEPT !.policyErr = TRUE]) =
             checkContainer(kMon, now, [o EXCEPT !.policyErr = FALSE])

\* the container is exited and UpdateRestartPolicy fails: the call was
\* made, the probe is down and the remediation went on
C25_Witness ==
    /\ kProbes > 0
    /\ DeclaresPolicy
    /\ kOut.policyErr
    /\ kOut.state = "exited"
    /\ kRes.status = StatusDown
    /\ RuntimeCalls({"UpdateRestartPolicy", "Start"}) =
          PolicyCall \o <<Call("Start", "c1", 0, <<>>)>>
    /\ attempts["a"] = 2

\* the last completed probe of the monitor performed a remediation action
\* that succeeded, and sent the remediated event
Remediated(id) ==
    /\ lastProbe[id].at # 0
    /\ lastAct[id].at = lastProbe[id].at
    /\ lastRemEvt[id].at = lastProbe[id].at

\* a probe of the monitor completes in this step and reports up
CompletesUp(id) ==
    /\ lastProbe'[id] # lastProbe[id]
    /\ lastProbe'[id].status = StatusUp

\* C26: after a probe whose remediation action succeeded (it sent the
\* remediated event), the next probe of the monitor, if it finds the
\* container running and the monitor was not paused in between, sends a
\* status_changed event with previous = down and current = up, later than
\* the remediated event, and resets attempts[id] to 0
C26_RemediatedThenUp ==
    [][\A id \in MonitorIds :
          (Remediated(id) /\ CompletesUp(id) /\ ~pausedSince[id]) =>
             /\ lastProbe[id].status = StatusDown
             /\ lastProbe'[id].prev = StatusDown
             /\ lastProbe'[id].emitted = 1
             /\ lastRemEvt[id].at < lastProbe'[id].at
             /\ lastRemEvt'[id] = lastRemEvt[id]
             /\ attempts[id] > 0
             /\ attempts'[id] = 0]_vars

\* the probe after a successful restart has found the container running:
\* it reported the change from down to up and attempts is 0 again
C26_Witness ==
    \E id \in MonitorIds :
        /\ lastRemEvt[id].at # 0
        /\ lastRemEvt[id].at = lastAct[id].at
        /\ lastProbe[id].at > lastRemEvt[id].at
        /\ lastProbe[id].status = StatusUp
        /\ lastProbe[id].prev = StatusDown
        /\ lastProbe[id].prevProbe = StatusDown
        /\ lastProbe[id].emitted = 1
        /\ ~lastProbe[id].pausedSince
        /\ attempts[id] = 0
        /\ cstate = "running"

\* the monitor of the HTTP harness has no url
MissingURL == ~hMon.hasHTTP \/ hMon.url = ""

\* C27: checkHTTP returns down "missing url" with latency 0 and without a
\* request when the url is missing or empty; when the GET got a response,
\* up iff 200 <= status code < 400 and down otherwise; down when the GET
\* failed on a transport error or the deadline
C27_HTTPProbe ==
    hProbes > 0 =>
       /\ hRes.status \in {StatusUp, StatusDown}
       /\ MissingURL =>
             hRes = [status |-> StatusDown, message |-> "missing url",
                     latencyMs |-> 0, requests |-> 0]
       /\ (hRes.requests = 1 /\ hOut.kind = "response") =>
             (hRes.status = StatusUp <=> (200 <= hOut.code /\ hOut.code < 400))
       /\ (hRes.requests = 1 /\ hOut.kind \in {"error", "deadline"}) =>
             hRes.status = StatusDown
       /\ hRes.status = StatusUp => (hRes.requests = 1 /\ hOut.kind = "response")

\* a response with status 400 was received: down
C27_Witness ==
    /\ hProbes > 0
    /\ hMon.url = "http://x"
    /\ hOut.kind = "response"
    /\ hOut.code = 400
    /\ hRes.requests = 1
    /\ hRes.status = StatusDown

\* C28: after any Write calls on a limitedWriter every Write has
\* returned len(p) and no error, the buffer is the first min(total, max)
\* bytes given, and truncated is true iff more than max bytes were given
C28_TruncatedIffExceeded ==
    /\ wReturns
    /\ IsStreamPrefix(wBuf, 0, IF wTotal < wMax THEN wTotal ELSE wMax)
    /\ wTruncated <=> (wTotal > wMax)

\* C29: the tail of every Logs call of a failed container probe is
\* max(1, m.logs.tail) in decimal, and there is no Logs call when
\* logs.include is false
C29_LogTailAtLeastOne ==
    kProbes > 0 =>
       /\ ~kMon.logs.include => RuntimeCalls({"Logs"}) = <<>>
       /\ \A i \in 1..Len(kRes.calls) :
             kRes.calls[i].op = "Logs" =>
                kRes.calls[i].tail = itoa(maxInt(1, kMon.logs.tail))

\* C30: the color of the discord embed is 0xdc3545 iff data.current of
\* the event is "down", and 0x5cdd8b for every other event
C30_DiscordColor ==
    dBuilds > 0 =>
       LET isDown == /\ dPayload.current.has
                     /\ dPayload.current.isString
                     /\ dPayload.current.value = "down"
       IN  dColor = IF isDown THEN ColorRed ELSE ColorGreen

\* the ids of the in-memory records
MockIds == {id \in ContainerIds : cMockDB[id].has}

\* the last call named a container that the mock has no record of
UnknownId == cLast'.id \notin {"mock-1", "mock-2", "mock-3"}

\* the methods of the client that take a container id
IdOps == {"ContainerState", "Start", "Stop", "Restart", "UpdateRestartPolicy",
          "Logs"}

\* C31: in the in-memory fallback client the mode never changes and the set
\* of container ids stays {mock-1, mock-2, mock-3}; a successful Start or
\* Restart leaves the container's state "running" and Stop leaves it
\* "exited", as ContainerState then reports; any operation on an unknown id
\* returns an error and changes no record.
C31_MockClient ==
    [][ cIsMock =>
          /\ cIsMock'
          /\ MockIds' = {"mock-1", "mock-2", "mock-3"}
          /\ (cLast'.op \in {"Start", "Restart"} /\ ~cLast'.err) =>
                ContainerState(cIsMock', cMockDB', cLast'.id,
                               [err |-> FALSE, state |-> ""])
                   = Ret(cMockDB', FALSE, "running", {})
          /\ (cLast'.op = "Stop" /\ ~cLast'.err) =>
                ContainerState(cIsMock', cMockDB', cLast'.id,
                               [err |-> FALSE, state |-> ""])
                   = Ret(cMockDB', FALSE, "exited", {})
          /\ (cLast'.op \in IdOps /\ UnknownId) =>
                cLast'.err /\ cMockDB' = cMockDB ]_vars

\* C32: the status_changed notification of a transition is sent under a
\* deadline that is still live: also when the probe ended down because its
\* own deadline expired, the POST to each resolved channel is issued.
C32_NotifyUnderLiveDeadline ==
    /\ tPc = "emit" /\ tTodo > 0 => ~SendCtxDone
    /\ \A i \in DOMAIN tPosts : tPosts[i].issued

\* C33: if UpsertMonitor, DeleteMonitor, UpsertNotification or
\* DeleteNotification of the JSON store returns an error, the lists that
\* GetState and GetNotifications return are the same as before the call.
C33_FailedWriteChangesNothing ==
    jLast.err => jMons = jLast.mons /\ jNotifs = jLast.notifs

\* the ids of a list, the records of a list with this id
IdsOf(rows) == {rows[i].id : i \in DOMAIN rows}
RowsOf(rows, id) == SelectSeq(rows, LAMBDA r : r.id = id)

\* C34: from a list of monitors with pairwise distinct ids, every
\* UpsertMonitor and DeleteMonitor leaves at most one record per id: an
\* upsert of a stored id replaces the record in place and keeps its
\* createdAt, an upsert of a new id appends one record, a delete removes
\* the record of its id and no other.
C34_OneRecordPerId ==
    LET old == jLast.mons
        i == RowOfId(old, jLast.id)
    IN  /\ \A id \in MonitorIds : Len(RowsOf(jMons, id)) <= 1
        /\ jLast.op = "UpsertMonitor" /\ i # 0 =>
              /\ Len(jMons) = Len(old)
              /\ \A k \in DOMAIN old : k # i => jMons[k] = old[k]
              /\ jMons[i].id = jLast.id
              /\ jMons[i].createdAt = old[i].createdAt
        /\ jLast.op = "UpsertMonitor" /\ i = 0 =>
              /\ Len(jMons) = Len(old) + 1
              /\ SubSeq(jMons, 1, Len(old)) = old
              /\ jMons[Len(jMons)].id = jLast.id
        /\ jLast.op = "DeleteMonitor" =>
              /\ jLast.id \notin IdsOf(jMons)
              /\ jMons = SelectSeq(old, LAMBDA r : r.id # jLast.id)
              /\ IdsOf(jMons) = IdsOf(old) \ {jLast.id}

\* an upsert replaced one of two records and was given another createdAt
C34_Witness ==
    /\ jLast.op = "UpsertMonitor"
    /\ Len(jLast.mons) = 2
    /\ RowOfId(jLast.mons, jLast.id) = 2
    /\ jLast.createdAt # jLast.mons[2].createdAt
    /\ jMons[2].updatedAt # jLast.mons[2].updatedAt

\* the pause/resume handler makes its UpsertMonitor call in this step
PauseWrites == pend # NoPend /\ pend' = NoPend

\* C35: the pause and resume handlers act atomically on the stored monitor:
\* run concurrently with a PUT or a DELETE of the same monitor, the result
\* is that of a serial order of the two requests.  The write of the handler
\* never puts back fields older than the stored ones and never stores a
\* monitor that is not in the store.
C35_PauseIsAtomic ==
    [][ PauseWrites =>
          LET i == IndexOfId(pend.id) IN
          IF i = 0
          THEN slen' = slen /\ \A k \in 1..slen : arr'[k] = arr[k]
          ELSE \/ arr'[i] = [arr[i] EXCEPT !.isPaused = pend.m.isPaused]
               \/ arr'[i] = arr[i] ]_vars

\* the scheduler handles the monitor as paused and lastStatus becomes paused
BecomesPaused(id) == lastStatus'[id] = StatusPaused /\ lastStatus[id] # StatusPaused

\* C36: the step that changes lastStatus to paused emits no event; the
\* first probe that completes after the monitor was handled as paused is
\* compared against paused: it emits one status_changed event with
\* previous = paused, also when its status is that of the last probe before
\* the pause, and it resets attempts[id] if it reports up.
C36_ProbeAfterPause ==
    [][\A id \in MonitorIds :
          /\ BecomesPaused(id) =>
                lastProbe'[id] = lastProbe[id] /\ lastRemEvt'[id] = lastRemEvt[id]
          /\ (Completes(id) /\ pausedSince[id]) =>
                /\ lastProbe'[id].prev = StatusPaused
                /\ lastProbe'[id].emitted = 1
                /\ lastProbe'[id].status = StatusUp => attempts'[id] = 0]_vars

\* a probe after a paused tick reported down as the probe before the pause
\* had, and emitted with previous = paused
C36_Witness ==
    \E id \in MonitorIds :
        /\ lastProbe[id].pausedSince
        /\ lastProbe[id].prev = StatusPaused
        /\ lastProbe[id].prevProbe = StatusDown
        /\ lastProbe[id].status = StatusDown
        /\ lastProbe[id].emitted = 1
        /\ lastStatus[id] = StatusDown

\* the position of an effect in the effects of the call of checkOnce, 0 if
\* it has not happened
PosOf(e) ==
    LET hits == {i \in DOMAIN oLog : oLog[i] = e}
    IN  IF hits = {} THEN 0 ELSE CHOOSE i \in hits : \A j \in hits : i <= j

\* the order C37 gives the effects of a probe
EffectOrder == <<"attempts", "action", "remediated", "logs", "lastStatus",
                 "history", "status_changed">>

\* C37: in one failing container probe that performs a remediation action
\* and detects a change of status the effects come in a fixed order: the
\* update of attempts and remediateAt, the Start/Restart call, the
\* remediated event, the log fetch, lastStatus, history, the
\* status_changed event; none happens twice, and a completed probe of this
\* kind has made all of them but the remediated event of a failed action
\* and the log fetch of a monitor that does not include logs.
C37_EffectOrder ==
    /\ \A i, j \in DOMAIN EffectOrder :
          (i < j /\ PosOf(EffectOrder[i]) # 0 /\ PosOf(EffectOrder[j]) # 0) =>
             PosOf(EffectOrder[i]) < PosOf(EffectOrder[j])
    /\ \A i, j \in DOMAIN oLog : oLog[i] = oLog[j] => i = j
    /\ PosOf("status_changed") # 0 =>
          /\ PosOf("lastStatus") # 0 /\ PosOf("history") # 0
          /\ PosOf("action") # 0 => PosOf("attempts") # 0
          /\ (oMon.include /\ oStatus = StatusDown) => PosOf("logs") # 0
    /\ PosOf("remediated") # 0 => PosOf("action") # 0

\* a probe has made all seven effects
C37_Witness ==
    /\ oPc = "idle"
    /\ \A i \in DOMAIN EffectOrder : PosOf(EffectOrder[i]) = i + 2
    /\ Len(oLog) = 9

\* C38: a reader that calls StatusSnapshot and then GetHistory never gets
\* the status and time of a probe from the first while the second still
\* has the entry of the probe before as its head: the status write and the
\* history append of checkOnce are one step for readers.
C38_NoHalfAppliedResult ==
    (oRead.pc = "both" /\ oRead.lastCheck # 0) =>
       /\ oRead.headAt >= oRead.lastCheck
       /\ oRead.headAt = oRead.lastCheck => oRead.headStatus = oRead.status


\* a step of the scheduler goroutine of call i
StepOf(i) == xLoopPc'[i] # xLoopPc[i] \/ xHandled'[i] # xHandled[i]

\* C39: the engine is not restartable.  The scheduler of a Start that was
\* called after Stop handles no tick and dispatches no probe, its only step
\* is the exit from its first select, and that step and the call itself
\* leave the engine's maps as they were; a Stop called while no scheduler
\* was ever started finds the wait group at zero and returns without
\* waiting.
C39_NotRestartable ==
    [][/\ \A i \in Starts :
            xLate'[i] =>
                /\ xCancelled'
                /\ xHandled'[i] = 0
                /\ xTick'[i] = 0
                /\ StepOf(i) =>
                      /\ UNCHANGED mapVars
                      /\ \/ xLoopPc[i] = "none" /\ xLoopPc'[i] = "select"
                         \/ xLoopPc[i] = "select" /\ xLoopPc'[i] = "exited"
       /\ (xStopPc' = "waiting" /\ \A i \in Starts : xLoopPc'[i] = "none") =>
              /\ xWg' = 0
              /\ UNCHANGED mapVars]_vars

\* the first scheduler probed, Stop returned, a second Start was called and
\* its scheduler has left its loop with the maps as the first one left them
C39_Witness ==
    /\ xHandled[1] > 0
    /\ lastStatus["a"] # Absent
    /\ xStopPc = "returned"
    /\ xLate[2]
    /\ xLoopPc[2] = "exited"
    /\ xHandled[2] = 0
    /\ xWg = 0

====
